---- MODULE Spec2Model ----
(***************************************************************************)
(* Model of the WorkQueue class of transparent-work-queue (workqueue.js):  *)
(* a FIFO backlog, an in-progress counter, the halted / paused flags, one  *)
(* callback slot per event, and the promise chains that the class builds   *)
(* for every dequeued item and every API call.                             *)
(*                                                                         *)
(* A step is one run of the class's code up to the points where it has to  *)
(* wait: for the result of a callback it called, for the promise of an    *)
(* item, or for setImmediate.  Reactions on promises that are already      *)
(* settled run in the same step (the microtask queue drains before any     *)
(* timer, I/O or setImmediate callback runs).  A callback is called in the *)
(* step that reaches the call; what it returns (a value or a promise)      *)
(* settles in a later step; a synchronous throw is handled in the step of  *)
(* the call, as the try/catch blocks of the class do.  Callbacks and tasks *)
(* are opaque: an operator that calls one yields the set of the states it  *)
(* can leave, one for everything the callback or task can do.  API calls   *)
(* made by the application are steps of their own.                         *)
(***************************************************************************)
EXTENDS Integers, Sequences, FiniteSets, TLC

VARIABLES
    options,          \* self._options: concurrencyLimit, processor (configured or not)
    callbacks,        \* self._callbacks: the set of events that have a callback
    queue,            \* self._queue: sequence of items [id, fn]
    inProgressCount,  \* self._inProgressCount
    halted,           \* self._halted
    paused,           \* self._paused
    haltData,         \* the WorkQueueHaltData of the _halt call that set _halted
    threads,          \* the pending promise chains (one per dequeued item / API call)
    immediates,       \* number of pending setImmediate(_evaluateQueue) callbacks
    fired,            \* the callbacks invoked by the last step, in call order
    raised,           \* the exception the last API call threw to its caller
    nextId,           \* id of the next enqueued item (ids follow enqueue order)
    nCalls,           \* number of API calls made so far
    admitted,         \* ids of the dequeued items, in dequeue order
    started,          \* ids of the items whose task / processor call was made
    completed         \* the items whose slot was released, in order: id and task result

vars == <<options, callbacks, queue, inProgressCount, halted, paused, haltData,
          threads, immediates, fired, raised, nextId, nCalls, admitted,
          started, completed>>

----------------------------------------------------------------------------
(* Bounds *)

MaxItems == 2
MaxCalls == 3
MaxLimit == 2     \* largest concurrencyLimit tried
MaxBatch == 2     \* longest array passed to addAll

(* Program constants *)

DEFAULT_CONCURRENCY_LIMIT == 1

Hooks == {"error", "halted", "queueSizeChange", "queueEmpty", "noWork",
          "itemProcessed", "beforeItemProcessed", "paused", "resumed",
          "afterHaltCompleted", "afterPauseCompleted"}

ERROR_SOURCES == {"CALLBACK", "PROCESS", "INTERNAL", "BADREQUEST"}

HALT_REASONS == {"CALLBACKRETVAL", "ERRORCALLBACKERROR", "PROCESSRETVAL", "INTERNAL"}

BEFORE_CALLBACK_VALS == {"HALT", "CONTINUE", "SKIP"}

----------------------------------------------------------------------------
(* Values *)

\* new WorkQueueHaltData({reason, error, callback})
WorkQueueHaltData(reason, error, callback) ==
    [reason |-> reason, error |-> error, callback |-> callback]

NoHaltData == WorkQueueHaltData("none", "none", "none")

\* one callback invocation: the event, the numeric argument (queue size),
\* the symbolic argument (item result, error source, halt reason), for
\* error / halted the callback the error or the halt came from, and
\* whether the callback threw
Ev(h, n, tag, cb, threw) == [h |-> h, n |-> n, tag |-> tag, cb |-> cb, threw |-> threw]

\* the promise of one _callHandler / _onError / _halt call: the event, the
\* callback whose result is awaited ("cb": the event's own, "err": the error
\* callback, "hlt": the halted callback, "done": settled) and the value the
\* promise resolves with
Frame(h, st, ret) == [h |-> h, st |-> st, ret |-> ret]

\* one promise chain
Thread(kind, n, fn, pc, frames, res) ==
    [kind |-> kind, n |-> n, fn |-> fn, pc |-> pc, frames |-> frames, res |-> res]

\* what the value or promise returned by a callback settles to
Outcomes == {"CONTINUE", "false", "HALT", "SKIP", "reject"}

\* what a task / processor call does: returns a promise, throws, or
\* returns something that is not a promise
LaunchResults == {"promise", "throw", "nonpromise"}

\* what the promise of a task settles to
TaskResults == {"true", "false", "reject"}

\* the state a step starts from, as a record that the operators below
\* transform (w, s); fired collects the callbacks the step calls
Cur ==
    [queue |-> queue, inProgressCount |-> inProgressCount, halted |-> halted,
     haltData |-> haltData, immediates |-> immediates,
     fired |-> <<>>, admitted |-> admitted, started |-> started,
     completed |-> completed, paused |-> paused]

\* the chain of a step that has nothing left to run
Ended == Thread("none", 0, FALSE, "end", <<>>, "none")

----------------------------------------------------------------------------
(* Hook invocation: _onHalted, _halt, _onError, _callHandler.  Each takes   *)
(* the state w it starts from and yields its possible outcomes: the state   *)
(* it leaves together with st, the callback whose result its promise now    *)
(* waits for ("done": the promise is resolved).                             *)

RECURSIVE _halt(_, _)

\* _onHalted(reason): no callback: resolved.  Otherwise the halted callback
\* is called: it returns (its value is ignored, a rejection rejects the
\* promise), or it throws, which rejects the promise at once.
_onHalted(w, data) ==
    IF "halted" \notin callbacks
    THEN {[w |-> w, st |-> "done"]}
    ELSE LET called(threw) ==
                 [w EXCEPT !.fired = Append(@, Ev("halted", 0, data.reason, data.callback, threw))]
         IN  {[w |-> called(FALSE), st |-> "hlt"], [w |-> called(TRUE), st |-> "rejected"]}

\* variant of _onError in which an exception of the error callback is
\* swallowed
_onErrorSwallow(w, source, from) ==
    IF "error" \notin callbacks
    THEN {[w |-> w, st |-> "done"]}
    ELSE {[w  |-> [w EXCEPT !.fired = Append(@, Ev("error", 0, source, from, threw))],
           st |-> IF threw THEN "done" ELSE "err"] : threw \in BOOLEAN}

\* variant of _onError in which an exception of the error callback halts
\* without looking at _halted
_onErrorRehalt(w, source, from) ==
    IF "error" \notin callbacks
    THEN {[w |-> w, st |-> "done"]}
    ELSE LET called(threw) ==
                 [w EXCEPT !.fired = Append(@, Ev("error", 0, source, from, threw))]
             data == WorkQueueHaltData("ERRORCALLBACKERROR", "ex", "error")
         IN  {[w |-> called(FALSE), st |-> "err"]}
             \cup {[w |-> r.w, st |-> IF r.st = "rejected" THEN "done" ELSE r.st] :
                      r \in _onHalted([called(TRUE) EXCEPT !.halted = TRUE,
                                                           !.haltData = data], data)}

\* variant of _onError in which an error halts the queue when there is no
\* error callback
_onErrorUnhandled(w, source, from) ==
    IF "error" \notin callbacks
    THEN {[w  |-> [w EXCEPT !.halted = TRUE,
                            !.haltData = IF w.halted THEN @
                                         ELSE WorkQueueHaltData("INTERNAL", "ex", "none")],
           st |-> "done"]}
    ELSE {[w |-> [w EXCEPT !.fired = Append(@, Ev("error", 0, source, from, FALSE))],
           st |-> "err"]}

\* _onError(err): no callback: resolved.  Otherwise the error callback is
\* called with the error (its source, and the callback or task it came
\* from): it returns, or it throws, which halts at once.
_onError(w, source, from) ==
    IF "error" \notin callbacks
    THEN {[w |-> w, st |-> "done"]}
    ELSE LET called(threw) ==
                 [w EXCEPT !.fired = Append(@, Ev("error", 0, source, from, threw))]
         IN  {[w |-> called(FALSE), st |-> "err"]}
             \cup _halt(called(TRUE), WorkQueueHaltData("ERRORCALLBACKERROR", "ex", "error"))

\* what a failing callback throws or rejects with: an error or value that
\* carries no source, or an error that already carries one (a
\* WorkQueueError always does)
ThrownErrors == {"none"} \cup ERROR_SOURCES

\* variant of SourceSet that keeps the source an error already carries
SourceKept(err, source) == IF err = "none" THEN source ELSE err

\* _callHandler, lines 573 and 607, _onHalted, lines 476 and 493:
\* err.source = ...: the source is set whatever the error carried
SourceSet(err, source) == source

\* the failure of callback h with error err is tagged CALLBACK and passed
\* to _onError
FailedWith(w, h, err) == _onError(w, SourceSet(err, "CALLBACK"), h)

\* the failure of callback h, whatever it threw or rejected with
Failed(w, h) == UNION {FailedWith(w, h, err) : err \in ThrownErrors}

\* variant of _halt that does not look at _halted: a halted queue halts
\* again
_haltAgain(w, data) ==
    {[w |-> r.w, st |-> IF r.st = "rejected" THEN "done" ELSE r.st] :
        r \in _onHalted([w EXCEPT !.halted = TRUE, !.haltData = data], data)}

\* variant of _halt in which a failure of the halted callback is swallowed
_haltSwallow(w, data) ==
    IF w.halted
    THEN {[w |-> w, st |-> "done"]}
    ELSE {[w |-> r.w, st |-> IF r.st = "rejected" THEN "done" ELSE r.st] :
             r \in _onHalted([w EXCEPT !.halted = TRUE, !.haltData = data], data)}

\* _halt(reason): ignored when already halted; otherwise sets _halted and
\* then calls the halted callback, whose failure goes to _onError with
\* source CALLBACK.
_halt(w, data) ==
    IF w.halted
    THEN {[w |-> w, st |-> "done"]}
    ELSE LET caught(r) == IF r.st = "rejected"
                          THEN Failed(r.w, "halted")
                          ELSE {r}
         IN  UNION {caught(r) :
                        r \in _onHalted([w EXCEPT !.halted = TRUE, !.haltData = data], data)}

\* _callHandler(handlerName, parameter): no callback: resolved with
\* undefined.  Otherwise the callback is called: it returns, or it throws,
\* and the exception is tagged CALLBACK and passed to _onError.
_callHandler(w, h, n, tag) ==
    IF h \notin callbacks
    THEN {[w |-> w, f |-> Frame(h, "done", "undef")]}
    ELSE LET called(threw) ==
                 [w EXCEPT !.fired = Append(@, Ev(h, n, tag, "none", threw))]
         IN  {[w |-> called(FALSE), f |-> Frame(h, "cb", "undef")]}
             \cup {[w |-> r.w, f |-> Frame(h, r.st, "undef")] :
                      r \in Failed(called(TRUE), h)}

\* variant of HaltsOn that takes only false for a halt request
HaltsOnFalseOnly(o) == o = "false"

\* variant of HaltsOn that takes only HALT for a halt request
HaltsOnHaltOnly(o) == o = "HALT"

\* _callHandler, line 587: the value a callback resolved to asks for a halt
HaltsOn(o) == o = "false" \/ o = "HALT"

\* variant of ErrorHaltsOn that takes no value for a halt request
ErrorHaltsOnNothing(o) == FALSE

\* _onError, line 424: the value the error callback resolved to asks for a
\* halt
ErrorHaltsOn(o) == o = "false"

\* The reactions of _callHandler, _onError and _halt when the result
\* awaited by f settles to o
SettleFrame(w, f, o) ==
    CASE f.st = "cb" ->
           IF HaltsOn(o)
           THEN {[w |-> r.w, f |-> Frame(f.h, r.st, o)] :
                    r \in _halt(w, WorkQueueHaltData("CALLBACKRETVAL", "none", f.h))}
           ELSE IF o = "reject"
           THEN {[w |-> r.w, f |-> Frame(f.h, r.st, "undef")] :
                    r \in Failed(w, f.h)}
           ELSE {[w |-> w, f |-> Frame(f.h, "done", o)]}
      [] f.st = "err" ->
           IF ErrorHaltsOn(o)
           THEN {[w |-> r.w, f |-> Frame(f.h, r.st, f.ret)] :
                    r \in _halt(w, WorkQueueHaltData("CALLBACKRETVAL", "none", "error"))}
           ELSE IF o = "reject"
           THEN {[w |-> r.w, f |-> Frame(f.h, r.st, f.ret)] :
                    r \in _halt(w, WorkQueueHaltData("ERRORCALLBACKERROR", "ex", "error"))}
           ELSE {[w |-> w, f |-> Frame(f.h, "done", f.ret)]}
      [] f.st = "hlt" ->
           IF o = "reject"
           THEN {[w |-> r.w, f |-> Frame(f.h, r.st, f.ret)] :
                    r \in Failed(w, "halted")}
           ELSE {[w |-> w, f |-> Frame(f.h, "done", f.ret)]}
      [] OTHER -> {[w |-> w, f |-> f]}

\* variant of _onQueueSizeChange that never calls queueEmpty
_onQueueSizeChangeOnly(w) ==
    {[w |-> r1.w, frames |-> <<r1.f>>] :
        r1 \in _callHandler(w, "queueSizeChange", Len(w.queue), "none")}

\* _onQueueSizeChange(): queueSizeChange with the size, and queueEmpty as
\* well when the size is 0 (Promise.all of both)
_onQueueSizeChange(w) ==
    LET size == Len(w.queue)
        one(r1) == IF size = 0
                   THEN {[w |-> r2.w, frames |-> <<r1.f, r2.f>>] :
                            r2 \in _callHandler(r1.w, "queueEmpty", 0, "none")}
                   ELSE {[w |-> r1.w, frames |-> <<r1.f>>]}
    IN  UNION {one(r1) : r1 \in _callHandler(w, "queueSizeChange", size, "none")}

AllDone(t) == \A i \in 1..Len(t.frames) : t.frames[i].st = "done"

----------------------------------------------------------------------------
(* The chain of a dequeued item: _retrieveNextPromise, _processNextItem,    *)
(* _processNextItemWrapper and the reaction of _evaluateQueue.  Each part   *)
(* takes p = [s, t], the state and the chain, runs if the chain has         *)
(* reached it and waits for nothing, and yields the set of its results.     *)

\* variant of Stopped that ignores the paused flag
StoppedWhenHalted(s) == s.halted

\* variant of Stopped that ignores the halted flag
StoppedWhenPaused(s) == s.paused

\* _evaluateQueue, line 795: halted or paused, no more items are processed
Stopped(s) == s.halted \/ s.paused

\* variant of AtLimit that admits one item more
AtLimitExceeded(s) == options.concurrencyLimit < s.inProgressCount

\* _evaluateQueue, line 800: the concurrency limit is reached
AtLimit(s) == options.concurrencyLimit <= s.inProgressCount

\* variant of Shift that takes the newest item (a pop)
ShiftLast(q) == [item |-> q[Len(q)], rest |-> SubSeq(q, 1, Len(q) - 1)]

\* variant of Shift that reads the head and leaves it in the queue
ShiftKept(q) == [item |-> Head(q), rest |-> q]

\* _retrieveNextPromise, line 624: self._queue.shift()
Shift(q) == [item |-> Head(q), rest |-> Tail(q)]

\* variant of _evaluateQueue that does not schedule the next
\* _evaluateQueue when it dequeues
_evaluateQueueOnce(s) ==
    IF Stopped(s) \/ AtLimit(s) \/ Len(s.queue) = 0
    THEN {[s |-> s, t |-> Ended]}
    ELSE LET nextItem == Shift(s.queue).item
             s1 == [s EXCEPT !.queue = Shift(@).rest,
                             !.inProgressCount = @ + 1,
                             !.admitted = Append(@, nextItem.id)]
         IN  {[s |-> r.w,
               t |-> Thread("item", nextItem.id, nextItem.fn, "qsc", r.frames, "none")] :
                 r \in _onQueueSizeChange(s1)}

\* _evaluateQueue(): when it admits, the head of the queue is shifted and
\* _inProgressCount incremented (_retrieveNextPromise), _onQueueSizeChange()
\* is called, and setImmediate schedules the next _evaluateQueue
_evaluateQueue(s) ==
    IF Stopped(s) \/ AtLimit(s) \/ Len(s.queue) = 0
    THEN {[s |-> s, t |-> Ended]}
    ELSE LET nextItem == Shift(s.queue).item
             s1 == [s EXCEPT !.queue = Shift(@).rest,
                             !.inProgressCount = @ + 1,
                             !.admitted = Append(@, nextItem.id),
                             !.immediates = @ + 1]
         IN  {[s |-> r.w,
               t |-> Thread("item", nextItem.id, nextItem.fn, "qsc", r.frames, "none")] :
                 r \in _onQueueSizeChange(s1)}

\* variant of _onBeforeItemProcessed that drops the dequeued item when the
\* queue has halted meanwhile
_onBeforeItemProcessedUnlessHalted(p) ==
    IF p.t.pc = "qsc" /\ AllDone(p.t)
    THEN IF p.s.halted
         THEN {[s |-> p.s,
                t |-> [p.t EXCEPT !.pc = "before",
                                  !.frames = <<Frame("beforeItemProcessed", "done", "HALT")>>]]}
         ELSE {[s |-> r.w, t |-> [p.t EXCEPT !.pc = "before", !.frames = <<r.f>>]] :
                  r \in _callHandler(p.s, "beforeItemProcessed", 0, "none")}
    ELSE {p}

\* _retrieveNextPromise, line 632: after the queue-size callbacks settled,
\* beforeItemProcessed is called
_onBeforeItemProcessed(p) ==
    IF p.t.pc = "qsc" /\ AllDone(p.t)
    THEN {[s |-> r.w, t |-> [p.t EXCEPT !.pc = "before", !.frames = <<r.f>>]] :
             r \in _callHandler(p.s, "beforeItemProcessed", 0, "none")}
    ELSE {p}

\* variant of NotLaunched that launches a skipped item
NotLaunchedOnHalt(v) == v = "HALT" \/ v = "false"

\* variant of NotLaunched that launches the item after a halt request
NotLaunchedOnSkip(v) == v = "SKIP"

\* _retrieveNextPromise, line 634: the item is not launched
NotLaunched(v) == v = "SKIP" \/ v = "HALT" \/ v = "false"

\* variant of Runnable that takes every item for a function
RunnableAlways(fn) == TRUE

\* _retrieveNextPromise, lines 642, 657: the item is a function, or there is
\* a processor to pass it to
Runnable(fn) == fn \/ options.processor

\* _retrieveNextPromise, lines 681-689: an error of the launch goes to
\* _onError, and the chain waits for it
LaunchFailed(p, s1, source) ==
    {[s |-> r.w,
      t |-> [p.t EXCEPT !.pc = "err",
                        !.frames = <<Frame("error", r.st, "undef")>>]] :
        r \in _onError(s1, source, "task")}

\* variant of Launched without the try / catch and the test of the result:
\* whatever the call does, the chain waits for a promise
LaunchedUnchecked(p, l) ==
    {[s |-> [p.s EXCEPT !.started = @ \cup {p.t.n}],
      t |-> [p.t EXCEPT !.pc = "running", !.frames = <<>>]]}

\* variant of Launched in which a result that is no promise is reported as
\* an error of the task (PROCESS)
LaunchedAllProcess(p, l) ==
    LET s1 == [p.s EXCEPT !.started = @ \cup {p.t.n}]
    IN  IF l = "promise"
        THEN {[s |-> s1, t |-> [p.t EXCEPT !.pc = "running", !.frames = <<>>]]}
        ELSE LaunchFailed(p, s1, "PROCESS")

\* _retrieveNextPromise, lines 642-674: the task / processor is called and
\* returns a promise, or throws (a PROCESS error), or returns something
\* else (a BADREQUEST error)
Launched(p, l) ==
    LET s1 == [p.s EXCEPT !.started = @ \cup {p.t.n}]
    IN  CASE l = "promise" ->
               {[s |-> s1, t |-> [p.t EXCEPT !.pc = "running", !.frames = <<>>]]}
          [] l = "throw" -> LaunchFailed(p, s1, "PROCESS")
          [] l = "nonpromise" -> LaunchFailed(p, s1, "BADREQUEST")

\* _retrieveNextPromise, lines 637-689: launch the item.  A function is
\* called; anything else goes to the processor, and is a BADREQUEST error
\* when there is none.
Launch(p) ==
    IF p.t.pc = "before" /\ AllDone(p.t) /\ ~NotLaunched(p.t.frames[1].ret)
    THEN IF Runnable(p.t.fn)
         THEN UNION {Launched(p, l) : l \in LaunchResults}
         ELSE LaunchFailed(p, p.s, "BADREQUEST")
    ELSE {p}

\* variant of Settled that calls itemProcessed whatever the promise of the
\* item settled to
SettledReportsAll(t, o) ==
    {[s |-> r.w, t |-> [t EXCEPT !.pc = "ip", !.res = o, !.frames = <<r.f>>]] :
        r \in _callHandler(Cur, "itemProcessed", 0, o)}

\* _processNextItem, lines 717-749: the item's promise settles to o.
\* Resolved: itemProcessed is called with the value.  Rejected: a PROCESS
\* error goes to _onError.
Settled(t, o) ==
    IF o = "reject"
    THEN {[s |-> r.w,
           t |-> [t EXCEPT !.pc = "err", !.res = o,
                           !.frames = <<Frame("error", r.st, "undef")>>]] :
             r \in _onError(Cur, "PROCESS", "task")}
    ELSE {[s |-> r.w, t |-> [t EXCEPT !.pc = "ip", !.res = o, !.frames = <<r.f>>]] :
             r \in _callHandler(Cur, "itemProcessed", 0, o)}

\* variant of ResolvedFalse that takes no result for a halt request
NeverFalse(t) == FALSE

\* _processNextItem, line 721: the item resolved to false
ResolvedFalse(t) == t.res = "false"

\* _processNextItem, lines 721-727: after itemProcessed settled, an item
\* that resolved to false halts with reason PROCESSRETVAL
ProcessHalt(p) ==
    IF p.t.pc = "ip" /\ AllDone(p.t) /\ ResolvedFalse(p.t)
    THEN {[s |-> r.w,
           t |-> [p.t EXCEPT !.pc = "halting",
                             !.frames = <<Frame("process", r.st, "undef")>>]] :
             r \in _halt(p.s, WorkQueueHaltData("PROCESSRETVAL", "none", "none"))}
    ELSE {p}

\* variant of Processed that does not wait for the callbacks of the item
ProcessedEarly(t) ==
    \/ t.pc = "before" /\ AllDone(t) /\ NotLaunched(t.frames[1].ret)
    \/ t.pc = "ip" /\ ~ResolvedFalse(t)
    \/ t.pc = "err"
    \/ t.pc = "halting"

\* variant of Processed in which the chain of an item that
\* beforeItemProcessed skipped never resolves
ProcessedUnlessSkipped(t) ==
    /\ AllDone(t)
    /\ \/ t.pc = "before" /\ t.frames[1].ret = "HALT"
       \/ t.pc = "ip" /\ ~ResolvedFalse(t)
       \/ t.pc = "err"
       \/ t.pc = "halting"

\* the promise of _processNextItem resolves: the item was not launched, or
\* its error was handled, or its itemProcessed callback and halt settled
Processed(t) ==
    /\ AllDone(t)
    /\ \/ t.pc = "before" /\ NotLaunched(t.frames[1].ret)
       \/ t.pc = "ip" /\ ~ResolvedFalse(t)
       \/ t.pc = "err"
       \/ t.pc = "halting"

\* variant of AfterPauseDue that is false on a halted queue
AfterPauseDueUnlessHalted(s) == s.inProgressCount = 0 /\ s.paused /\ ~s.halted

\* variant of NoWorkDue that does not look at the queue
NoWorkDueWhenIdle(s) == s.inProgressCount = 0

\* variant of NoWorkDue that is true for the first drain only
NoWorkDueFirstTime(s) ==
    s.inProgressCount = 0 /\ Len(s.queue) = 0 /\ Len(s.completed) <= 1

\* variant of AfterHaltDue that does not look at the halted flag
AfterHaltDueAlways(s) == s.inProgressCount = 0

\* variant of AfterHaltDue that does not look at the counter
AfterHaltDueWhenHalted(s) == s.halted

\* _processNextItemWrapper, lines 766, 770, 774: the callbacks that are due
NoWorkDue(s) == s.inProgressCount = 0 /\ Len(s.queue) = 0
AfterHaltDue(s) == s.inProgressCount = 0 /\ s.halted
AfterPauseDue(s) == s.inProgressCount = 0 /\ s.paused

\* _processNextItemWrapper, lines 761-776: the slot is released, then
\* noWork, afterHaltCompleted and afterPauseCompleted are called as due
Completion(p) ==
    IF Processed(p.t)
    THEN LET s0 == [p.s EXCEPT !.inProgressCount = @ - 1,
                               !.completed = Append(@, [id |-> p.t.n, res |-> p.t.res])]
             call(a, h) == {[w |-> r.w, f |-> a.f \o <<r.f>>] :
                               r \in _callHandler(a.w, h, 0, "none")}
             noWork(a) == IF NoWorkDue(a.w) THEN call(a, "noWork") ELSE {a}
             afterHalt(a) == IF AfterHaltDue(a.w)
                             THEN call(a, "afterHaltCompleted") ELSE {a}
             afterPause(a) == IF AfterPauseDue(a.w)
                              THEN call(a, "afterPauseCompleted") ELSE {a}
         IN  {[s |-> a.w, t |-> [p.t EXCEPT !.pc = "completing", !.frames = a.f]] :
                 a \in UNION {afterPause(a2) :
                              a2 \in UNION {afterHalt(a1) :
                                               a1 \in noWork([w |-> s0, f |-> <<>>])}}}
    ELSE {p}

\* variant of Finish that does not schedule _evaluateQueue
FinishUnscheduled(p) ==
    IF p.t.pc = "completing" /\ AllDone(p.t)
    THEN {[s |-> p.s, t |-> Ended]}
    ELSE {p}

\* _evaluateQueue, lines 812-816: after the item's chain settled,
\* setImmediate schedules _evaluateQueue
Finish(p) ==
    IF p.t.pc = "completing" /\ AllDone(p.t)
    THEN {[s |-> [p.s EXCEPT !.immediates = @ + 1], t |-> Ended]}
    ELSE {p}

\* the chain of an item runs as far as it can
RunItem(p) ==
    LET P1 == _onBeforeItemProcessed(p)
        P2 == UNION {Launch(q) : q \in P1}
        P3 == UNION {ProcessHalt(q) : q \in P2}
        P4 == UNION {Completion(q) : q \in P3}
    IN  UNION {Finish(q) : q \in P4}

\* the continuation of an API call after its callbacks settled: add,
\* addAll and resume run _evaluateQueue; clear and pause do nothing more
RunApi(p) ==
    IF ~AllDone(p.t) THEN {p}
    ELSE IF p.t.kind \in {"add", "resume"}
    THEN UNION {RunItem(q) : q \in _evaluateQueue(p.s)}
    ELSE {[s |-> p.s, t |-> Ended]}

\* the step leaves state p.s; chain p.t replaces the chains in old
Commit(p, old) ==
    /\ queue' = p.s.queue
    /\ inProgressCount' = p.s.inProgressCount
    /\ halted' = p.s.halted
    /\ haltData' = p.s.haltData
    /\ immediates' = p.s.immediates
    /\ fired' = p.s.fired
    /\ admitted' = p.s.admitted
    /\ started' = p.s.started
    /\ completed' = p.s.completed
    /\ threads' = (threads \ old) \cup (IF p.t.pc = "end" THEN {} ELSE {p.t})

\* the values the result awaited by frame f may settle to
ValuesOf(f) ==
    IF f.st = "cb" /\ f.h = "beforeItemProcessed"
    THEN Outcomes
    ELSE Outcomes \ {"SKIP"}

\* the items the application enqueues: values for the processor when there
\* is one, otherwise functions and (invalid) values
ItemKinds == IF options.processor THEN {FALSE} ELSE BOOLEAN

\* the arrays addAll is called with
Batches == UNION {[1..k -> ItemKinds] : k \in 0..MaxBatch}

----------------------------------------------------------------------------
(* Construction and registration *)

\* constructor: _validateOptions accepts a concurrencyLimit >= 1 (default
\* 1) and an optional processor; empty queue, nothing in progress, no
\* callbacks, neither halted nor paused
Init ==
    /\ options \in [concurrencyLimit : DEFAULT_CONCURRENCY_LIMIT..MaxLimit,
                    processor : BOOLEAN]
    /\ queue = <<>>
    /\ inProgressCount = 0
    /\ callbacks = {}
    /\ halted = FALSE
    /\ paused = FALSE
    /\ haltData = NoHaltData
    /\ threads = {}
    /\ immediates = 0
    /\ fired = <<>>
    /\ raised = "none"
    /\ nextId = 1
    /\ nCalls = 0
    /\ admitted = <<>>
    /\ started = {}
    /\ completed = <<>>

\* on(trigger, callback) for a valid trigger.  The application registers
\* its callbacks before it makes its first call.
On(h) ==
    /\ nCalls = 0
    /\ h \in Hooks
    /\ h \notin callbacks
    /\ callbacks' = callbacks \cup {h}
    /\ fired' = <<>>
    /\ raised' = "none"
    /\ UNCHANGED <<options, queue, inProgressCount, halted, paused, haltData,
                   threads, immediates, nextId, nCalls, admitted, started, completed>>

----------------------------------------------------------------------------
(* The steps of the queue *)

\* a setImmediate callback runs _evaluateQueue
RunImmediate ==
    /\ immediates > 0
    /\ \E q \in _evaluateQueue([Cur EXCEPT !.immediates = @ - 1]) :
           \E p \in RunItem(q) : Commit(p, {})
    /\ raised' = "none"
    /\ UNCHANGED <<options, callbacks, paused, nextId, nCalls>>

\* the promise of the item of chain t settles, and the chain runs on
TaskSettle(t) ==
    /\ t \in threads /\ t.pc = "running"
    /\ \E o \in TaskResults : \E q \in Settled(t, o) :
           \E p \in RunItem(q) : Commit(p, {t})
    /\ raised' = "none"
    /\ UNCHANGED <<options, callbacks, paused, nextId, nCalls>>

\* the result awaited by frame i of chain t settles to o, and the chain
\* runs on
Resumed(t, i, o) ==
    LET P == {[s |-> r.w, t |-> [t EXCEPT !.frames[i] = r.f]] :
                 r \in SettleFrame(Cur, t.frames[i], o)}
    IN  UNION {IF t.kind = "item" THEN RunItem(q) ELSE RunApi(q) : q \in P}

HookSettle(t, i) ==
    /\ t \in threads /\ i \in 1..Len(t.frames)
    /\ t.frames[i].st # "done"
    /\ \E o \in ValuesOf(t.frames[i]) : \E p \in Resumed(t, i, o) : Commit(p, {t})
    /\ raised' = "none"
    /\ UNCHANGED <<options, callbacks, paused, nextId, nCalls>>

----------------------------------------------------------------------------
(* The API *)

\* the application makes at most MaxCalls calls in a run
MayCall == nCalls < MaxCalls

\* variant of Rejected that accepts every item
RejectedNever(fn) == FALSE

\* add(item), line 865: without a processor only functions may be added
Rejected(fn) == ~options.processor /\ ~fn

\* the chain of an API call: its callbacks, then its continuation
ApiThread(kind, frames) ==
    LET used == {t.n : t \in {u \in threads : u.kind # "item"}}
        n == CHOOSE k \in 1..(Cardinality(used) + 1) :
                 k \notin used /\ \A j \in 1..(k - 1) : j \in used
    IN  Thread(kind, n, FALSE, "hooks", frames, "none")

\* an API call of the given kind, made in state s (queue updated): add,
\* addAll and clear call _onQueueSizeChange(), pause and resume their own
\* callback; then the chain of the call runs on
Called(kind, s) ==
    LET P == IF kind \in {"pause", "resume"}
             THEN {[s |-> r.w, t |-> ApiThread(kind, <<r.f>>)] :
                      r \in _callHandler(s, IF kind = "pause" THEN "paused" ELSE "resumed",
                                         0, "none")}
             ELSE {[s |-> r.w, t |-> ApiThread(kind, r.frames)] :
                      r \in _onQueueSizeChange(s)}
    IN  UNION {RunApi(q) : q \in P}

\* add(item): a non-function without a processor throws BADREQUEST to the
\* caller; otherwise the item is pushed, _onQueueSizeChange() called and
\* then _evaluateQueue()
Add(fn) ==
    /\ MayCall /\ nextId <= MaxItems
    /\ nCalls' = nCalls + 1
    /\ IF Rejected(fn)
       THEN /\ raised' = "BADREQUEST"
            /\ fired' = <<>>
            /\ UNCHANGED <<queue, nextId, inProgressCount, halted, haltData, threads,
                           immediates, admitted, started, completed>>
       ELSE /\ \E p \in Called("add", [Cur EXCEPT !.queue =
                                  Append(@, [id |-> nextId, fn |-> fn])]) :
                   Commit(p, {})
            /\ nextId' = nextId + 1
            /\ raised' = "none"
    /\ UNCHANGED <<options, callbacks, paused>>

\* addAll(items): the items are pushed in order, without validation, then
\* as add
AddAll(fns) ==
    /\ MayCall /\ nextId + Len(fns) - 1 <= MaxItems
    /\ nCalls' = nCalls + 1
    /\ \E p \in Called("add", [Cur EXCEPT !.queue =
                         @ \o [k \in 1..Len(fns) |-> [id |-> nextId + k - 1, fn |-> fns[k]]]]) :
           Commit(p, {})
    /\ nextId' = nextId + Len(fns)
    /\ raised' = "none"
    /\ UNCHANGED <<options, callbacks, paused>>

\* variant of Emptied that leaves the head of the queue in place
EmptiedButHead(q) == IF q = <<>> THEN q ELSE <<Head(q)>>

\* clear(), line 934: self._queue = []
Emptied(q) == <<>>

\* clear(): the queue is emptied and _onQueueSizeChange() called
Clear ==
    /\ MayCall
    /\ nCalls' = nCalls + 1
    /\ \E p \in Called("clear", [Cur EXCEPT !.queue = Emptied(@)]) : Commit(p, {})
    /\ raised' = "none"
    /\ UNCHANGED <<options, callbacks, paused, nextId>>

\* pause(): _paused is set and the paused callback called, not waited for
Pause ==
    /\ MayCall
    /\ nCalls' = nCalls + 1
    /\ paused' = TRUE
    /\ \E p \in Called("pause", [Cur EXCEPT !.paused = TRUE]) : Commit(p, {})
    /\ raised' = "none"
    /\ UNCHANGED <<options, callbacks, nextId>>

\* variant of ResumeIgnored that ignores no call
ResumeIgnoredNever == FALSE

\* resume(), lines 1004-1007: ignore if not paused
ResumeIgnored == ~paused

\* resume(): ignored when not paused; otherwise _paused is reset, the
\* resumed callback called and then _evaluateQueue()
Resume ==
    /\ MayCall
    /\ nCalls' = nCalls + 1
    /\ IF ResumeIgnored
       THEN /\ fired' = <<>>
            /\ UNCHANGED <<paused, queue, inProgressCount, halted, haltData, threads,
                           immediates, admitted, started, completed>>
       ELSE /\ paused' = FALSE
            /\ \E p \in Called("resume", [Cur EXCEPT !.paused = FALSE]) : Commit(p, {})
    /\ raised' = "none"
    /\ UNCHANGED <<options, callbacks, nextId>>

----------------------------------------------------------------------------
(* Specifications *)

\* the steps of the queue itself
Engine ==
    \/ RunImmediate
    \/ \E t \in threads : TaskSettle(t)
    \/ \E t \in threads : \E i \in 1..Len(t.frames) : HookSettle(t, i)

\* the calls of the application
Api ==
    \/ \E fn \in ItemKinds : Add(fn)
    \/ \E fns \in Batches : AddAll(fns)
    \/ Clear
    \/ Pause
    \/ Resume

\* an application that registers the error and halted callbacks
Next ==
    \/ \E h \in {"error", "halted"} : On(h)
    \/ Engine
    \/ Api

Spec == Init /\ [][Next]_vars

\* an application that registers the halted and itemProcessed callbacks
NextProcessed ==
    \/ \E h \in {"halted", "itemProcessed"} : On(h)
    \/ Engine
    \/ Api

SpecProcessed == Init /\ [][NextProcessed]_vars

\* an application that registers the halted and beforeItemProcessed callbacks
NextBefore ==
    \/ \E h \in {"halted", "beforeItemProcessed"} : On(h)
    \/ Engine
    \/ Api

SpecBefore == Init /\ [][NextBefore]_vars

\* an application that registers the halted and noWork callbacks
NextNoWork ==
    \/ \E h \in {"halted", "noWork"} : On(h)
    \/ Engine
    \/ Api

SpecNoWork == Init /\ [][NextNoWork]_vars

\* an application that registers the noWork and afterHaltCompleted callbacks
NextAfterHalt ==
    \/ \E h \in {"noWork", "afterHaltCompleted"} : On(h)
    \/ Engine
    \/ Api

SpecAfterHalt == Init /\ [][NextAfterHalt]_vars

\* an application that registers the itemProcessed, afterHaltCompleted and
\* afterPauseCompleted callbacks
NextAfter ==
    \/ \E h \in {"itemProcessed", "afterHaltCompleted", "afterPauseCompleted"} : On(h)
    \/ Engine
    \/ Api

SpecAfter == Init /\ [][NextAfter]_vars

\* an application that registers the paused and resumed callbacks
NextResume ==
    \/ \E h \in {"paused", "resumed"} : On(h)
    \/ Engine
    \/ Api

SpecResume == Init /\ [][NextResume]_vars

\* an application that registers the resumed callback and calls add, pause
\* and resume only
NextPauseResume ==
    \/ On("resumed")
    \/ Engine
    \/ \E fn \in ItemKinds : Add(fn)
    \/ Pause
    \/ Resume

SpecPauseResume == Init /\ [][NextPauseResume]_vars

\* the events whose callbacks are called through _callHandler
LifecycleHooks == Hooks \ {"error", "halted"}

\* an application that registers the halted callback and one of the other
\* callbacks (not the error callback), and calls add, clear, pause and resume
NextLifecycle ==
    \/ \E h \in LifecycleHooks \cup {"halted"} : On(h) /\ callbacks \subseteq {"halted"}
    \/ Engine
    \/ \E fn \in ItemKinds : Add(fn)
    \/ Clear
    \/ Pause
    \/ Resume

SpecLifecycle == Init /\ [][NextLifecycle]_vars

\* an application that registers the queueSizeChange and queueEmpty
\* callbacks, and calls add, clear and pause
NextClear ==
    \/ \E h \in {"queueSizeChange", "queueEmpty"} : On(h)
    \/ Engine
    \/ \E fn \in ItemKinds : Add(fn)
    \/ Clear
    \/ Pause

SpecClear == Init /\ [][NextClear]_vars

\* an application that registers the queueSizeChange or the queueEmpty
\* callback
NextQueueSize ==
    \/ \E h \in {"queueSizeChange", "queueEmpty"} : On(h) /\ callbacks = {}
    \/ Engine
    \/ Api

SpecQueueSize == Init /\ [][NextQueueSize]_vars

\* an application that registers the halted, beforeItemProcessed and
\* itemProcessed callbacks
NextItem ==
    \/ \E h \in {"halted", "beforeItemProcessed", "itemProcessed"} : On(h)
    \/ Engine
    \/ Api

SpecItem == Init /\ [][NextItem]_vars

\* an application that registers the paused, resumed and
\* afterPauseCompleted callbacks
NextPaused ==
    \/ \E h \in {"paused", "resumed", "afterPauseCompleted"} : On(h)
    \/ Engine
    \/ Api

SpecPaused == Init /\ [][NextPaused]_vars

\* the application of Spec, with an event loop that runs every scheduled
\* _evaluateQueue; tasks and callback results need not settle
SpecAdmit == Init /\ [][Next]_vars /\ WF_vars(RunImmediate)

\* an application that registers the error and itemProcessed callbacks
NextCallbackError ==
    \/ \E h \in {"error", "itemProcessed"} : On(h)
    \/ Engine
    \/ Api

SpecCallbackError == Init /\ [][NextCallbackError]_vars

\* an application that registers the beforeItemProcessed callback, or the
\* queueSizeChange or queueEmpty callback, or one of these after the first,
\* and calls add and addAll
NextDequeue ==
    \/ \E h \in {"queueSizeChange", "queueEmpty", "beforeItemProcessed"} :
          On(h) /\ callbacks \subseteq {"beforeItemProcessed"}
    \/ Engine
    \/ \E fn \in ItemKinds : Add(fn)
    \/ \E fns \in Batches : AddAll(fns)

SpecDequeue == Init /\ [][NextDequeue]_vars

\* an application that registers the error, halted and itemProcessed
\* callbacks
NextSlot ==
    \/ \E h \in {"error", "halted", "itemProcessed"} : On(h)
    \/ Engine
    \/ Api

SpecSlot == Init /\ [][NextSlot]_vars

\* an application that registers the error and beforeItemProcessed
\* callbacks
NextPaths ==
    \/ \E h \in {"error", "beforeItemProcessed"} : On(h)
    \/ Engine
    \/ Api

\* that application, with an event loop that runs every scheduled
\* _evaluateQueue and continuation, and tasks and callbacks whose results
\* all settle
SpecPaths == Init /\ [][NextPaths]_vars /\ WF_vars(Engine)

\* the application of Spec, with an event loop that runs every scheduled
\* _evaluateQueue and continuation, and tasks and callbacks whose results
\* all settle
SpecLive == Init /\ [][Next]_vars /\ WF_vars(Engine)

----------------------------------------------------------------------------
(* Observations used by the properties *)

\* callback h is called in the step that logged log
Invoked(log, h) == \E i \in 1..Len(log) : log[i].h = h

\* the number of calls of callback h in log
Calls(log, h) == Cardinality({i \in 1..Len(log) : log[i].h = h})

\* the halted callback is called with this reason and callback name
HaltedWith(log, reason, cb) ==
    \E i \in 1..Len(log) :
        log[i].h = "halted" /\ log[i].tag = reason /\ log[i].cb = cb

\* the ids in a sequence of ids increase
Increasing(ids) == \A i, j \in 1..Len(ids) : i < j => ids[i] < ids[j]

\* the chains of the items in flight
ItemThreads(T) == {t \in T : t.kind = "item"}

\* in this step item n, whose task resolved to false, gets past its
\* itemProcessed callback (the callback has settled, or there is none)
FalseResultHandled(n) ==
    /\ \E t \in ItemThreads(threads) : t.n = n /\ t.pc \in {"running", "ip"}
    /\ \A u \in ItemThreads(threads') : u.n = n => u.pc \notin {"running", "ip"}
    /\ \/ \E u \in ItemThreads(threads') : u.n = n /\ u.res = "false"
       \/ \E i \in 1..Len(completed') : completed'[i] = [id |-> n, res |-> "false"]

----------------------------------------------------------------------------
\* the error callback is called for a failure of the halted callback
ErrorFromHalted(e) == e.h = "error" /\ e.tag = "CALLBACK" /\ e.cb = "halted"

\* in state s the queue is halted with this data and the halted callback,
\* if there is one, was called with it in the step that logged s.fired
HaltedBy(s, data) ==
    /\ s.halted
    /\ s.haltData = data
    /\ "halted" \in callbacks => HaltedWith(s.fired, data.reason, data.callback)

\* in state s _evaluateQueue() dequeues nothing
NothingAdmitted(s) == \A q \in _evaluateQueue(s) : q.t = Ended

\* the frames of the pending chains that await the callback st
Awaiting(st) ==
    {x \in UNION {{[t |-> t, i |-> i] : i \in 1..Len(t.frames)} : t \in threads} :
        x.t.frames[x.i].st = st}

----------------------------------------------------------------------------
(* Properties *)

\* C1: in every reachable state the number of items in progress is at most
\* the concurrency limit (at most 1 with the default limit).
C1_LimitRespected == inProgressCount <= options.concurrencyLimit

\* C1, its case: the limit is reached while an item waits in the queue of a
\* queue that is neither halted nor paused, with an _evaluateQueue pending
C1_Witness ==
    /\ inProgressCount = options.concurrencyLimit
    /\ queue # <<>>
    /\ ~halted /\ ~paused
    /\ immediates > 0

\* C2: items are dequeued in the order they were enqueued (ids follow the
\* enqueue order of add and addAll): the dequeued ids increase, the queue
\* holds increasing ids, all larger than every dequeued id; and with
\* concurrencyLimit 1 the items complete in the order they were dequeued.
C2_Fifo ==
    /\ Increasing(admitted)
    /\ Increasing([i \in 1..Len(queue) |-> queue[i].id])
    /\ \A i \in 1..Len(admitted), j \in 1..Len(queue) : admitted[i] < queue[j].id
    /\ options.concurrencyLimit = 1 =>
         /\ Len(completed) <= Len(admitted)
         /\ \A i \in 1..Len(completed) : completed[i].id = admitted[i]

\* C2, its case: with limit 1 two items were dequeued and completed
C2_Witness ==
    /\ options.concurrencyLimit = 1
    /\ Len(admitted) >= 2
    /\ Len(completed) >= 2

\* C3: once the queue is halted it stays halted and no item is dequeued any
\* more, whatever is called; the queue only grows at its end (add, addAll)
\* or is emptied (clear).
C3_HaltedAbsorbing ==
    [][halted =>
         /\ halted'
         /\ admitted' = admitted
         /\ \/ queue' = <<>>
            \/ /\ Len(queue') >= Len(queue)
               /\ SubSeq(queue', 1, Len(queue)) = queue]_vars

\* C3, its case: a halted queue, idle, holding an item that was enqueued
\* after the last dequeue and will never be dequeued
C3_Witness ==
    /\ halted /\ ~paused
    /\ queue # <<>>
    /\ inProgressCount = 0 /\ threads = {} /\ immediates = 0

\* C4 as stated: when a task or the processor resolves to false (and the
\* item's itemProcessed callback has settled), the queue halts and the
\* halted callback is called with reason PROCESSRETVAL.
C4_AsStated ==
    [][\A n \in 1..MaxItems : FalseResultHandled(n) =>
         /\ halted'
         /\ "halted" \in callbacks => HaltedWith(fired', "PROCESSRETVAL", "none")]_vars

\* C4, amended: when a task or the processor resolves to false, then once
\* the item's itemProcessed callback has settled the queue is halted and the
\* step dequeues nothing; the halted callback is called with reason
\* PROCESSRETVAL exactly when the queue was not halted before (by an earlier
\* halt, or by the itemProcessed callback of the item); the other items in
\* flight keep running.
C4_HaltsOnFalse ==
    [][\A n \in 1..MaxItems : FalseResultHandled(n) =>
         /\ halted'
         /\ admitted' = admitted
         /\ "halted" \in callbacks =>
              (HaltedWith(fired', "PROCESSRETVAL", "none")
                 <=> ~halted /\ haltData'.reason = "PROCESSRETVAL")
         /\ \A u \in ItemThreads(threads) :
                u.n # n /\ u.pc = "running" => u \in threads']_vars

\* C4, its case: the halted callback was just called with reason
\* PROCESSRETVAL while another item is in flight
C4_Witness ==
    /\ halted /\ haltData.reason = "PROCESSRETVAL"
    /\ HaltedWith(fired, "PROCESSRETVAL", "none")
    /\ \E u \in ItemThreads(threads) : u.pc = "running"

\* C5 as stated: once the queue is halted, no task function and no
\* processor call is started any more.
C5_AsStated == [][halted => started' = started]_vars

\* C6: on a queue that is not halted, when the result of the error
\* callback settles to false the queue halts with reason CALLBACKRETVAL and
\* callback 'error', the halted callback is called with them and nothing is
\* dequeued any more; when it settles to any other value the queue is not
\* halted, the halted callback is not called, the item's chain finishes and
\* the next _evaluateQueue() dequeues the head of the queue (unless paused).
C6_ErrorReturnValue ==
    ~halted =>
      \A x \in Awaiting("err") :
        /\ \A p \in Resumed(x.t, x.i, "false") :
              /\ HaltedBy(p.s, WorkQueueHaltData("CALLBACKRETVAL", "none", "error"))
              /\ NothingAdmitted(p.s)
        /\ \A o \in Outcomes \ {"false", "reject"} :
              \A p \in Resumed(x.t, x.i, o) :
                /\ ~p.s.halted
                /\ ~Invoked(p.s.fired, "halted")
                /\ p.t = Ended /\ p.s.immediates > 0
                /\ p.s.queue # <<>> /\ ~paused =>
                     \A q \in _evaluateQueue(p.s) :
                        q.t.kind = "item" /\ q.t.n = Head(p.s.queue).id

\* C6, its case: the halted callback was just called with CALLBACKRETVAL /
\* 'error' after the error callback returned false
C6_Witness ==
    /\ halted
    /\ haltData = WorkQueueHaltData("CALLBACKRETVAL", "none", "error")
    /\ HaltedWith(fired, "CALLBACKRETVAL", "error")

\* C7: on a queue that is not halted, when the error callback, called for
\* the failure of a task, throws, or when its result settles to a
\* rejection, the queue halts with reason ERRORCALLBACKERROR, the halted
\* callback is called with it and nothing is dequeued any more.
C7_ErrorHookFails ==
    [][~halted =>
         /\ (\E i \in 1..Len(fired') :
                fired'[i].h = "error" /\ fired'[i].cb # "halted" /\ fired'[i].threw)
              => /\ halted'
                 /\ haltData' = WorkQueueHaltData("ERRORCALLBACKERROR", "ex", "error")
                 /\ "halted" \in callbacks =>
                      HaltedWith(fired', "ERRORCALLBACKERROR", "error")
         /\ \A x \in Awaiting("err") : \A p \in Resumed(x.t, x.i, "reject") :
              /\ HaltedBy(p.s, WorkQueueHaltData("ERRORCALLBACKERROR", "ex", "error"))
              /\ NothingAdmitted(p.s)]_vars

\* C7, its case: the error callback threw and the halted callback was
\* called with ERRORCALLBACKERROR
C7_Witness ==
    /\ halted
    /\ haltData.reason = "ERRORCALLBACKERROR"
    /\ \E i, j \in 1..Len(fired) :
          /\ i < j
          /\ fired[i].h = "error" /\ fired[i].threw
          /\ fired[j].h = "halted" /\ fired[j].tag = "ERRORCALLBACKERROR"

\* C8: a step calls the halted callback at most once, and only in the step
\* that halts the queue; when the halted callback throws, the error
\* callback is called exactly once for that failure, and when it throws too
\* no callback is called again for it and the chain waits for neither; on a
\* halted queue, whatever the result of a pending error callback settles to
\* (false included), neither the halted nor the error callback is called
\* again.
C8_DoubleFault ==
    [][/\ Calls(fired', "halted") <= 1
       /\ Invoked(fired', "halted") => ~halted /\ halted'
       /\ \A i \in 1..Len(fired') :
            fired'[i].h = "halted" /\ fired'[i].threw /\ "error" \in callbacks =>
              /\ Cardinality({j \in 1..Len(fired') : ErrorFromHalted(fired'[j])}) = 1
              /\ \A j \in 1..Len(fired') :
                    ErrorFromHalted(fired'[j]) /\ fired'[j].threw =>
                      /\ i < j
                      /\ \A k \in (j + 1)..Len(fired') :
                            fired'[k].h \notin {"halted", "error"}
                      /\ \A t \in threads' \ threads : \A k \in 1..Len(t.frames) :
                            t.frames[k].st \notin {"hlt", "err"}
       /\ halted =>
            \A x \in Awaiting("err") : \A o \in Outcomes \ {"SKIP"} :
              \A p \in Resumed(x.t, x.i, o) :
                /\ p.s.halted /\ p.s.haltData = haltData
                /\ ~Invoked(p.s.fired, "halted")
                /\ ~Invoked(p.s.fired, "error")]_vars

\* C8, its case: the halted callback threw, then the error callback, called
\* for that failure, threw too, and no chain waits for either
C8_Witness ==
    /\ halted
    /\ \E i, j \in 1..Len(fired) :
          /\ i < j
          /\ fired[i].h = "halted" /\ fired[i].threw
          /\ ErrorFromHalted(fired[j]) /\ fired[j].threw
    /\ Awaiting("hlt") = {} /\ Awaiting("err") = {}

\* C9: when the halted callback throws, or its result settles to a
\* rejection, the error callback (if there is one) is called after it with
\* an error of source CALLBACK that names the halted callback, and the queue
\* stays halted, also after the result of that error callback settles, to
\* whatever value.
C9_HaltedHookFails ==
    [][/\ \A i \in 1..Len(fired') :
            fired'[i].h = "halted" /\ fired'[i].threw =>
              /\ halted'
              /\ "error" \in callbacks =>
                   \E j \in (i + 1)..Len(fired') : ErrorFromHalted(fired'[j])
       /\ \A x \in Awaiting("hlt") :
            /\ halted
            /\ \A p \in Resumed(x.t, x.i, "reject") :
                  /\ p.s.halted
                  /\ "error" \in callbacks =>
                       \E j \in 1..Len(p.s.fired) : ErrorFromHalted(p.s.fired[j])
       /\ halted =>
            \A x \in Awaiting("err") : \A o \in Outcomes \ {"SKIP"} :
              \A p \in Resumed(x.t, x.i, o) :
                p.s.halted /\ p.s.admitted = admitted /\ NothingAdmitted(p.s)]_vars

\* C9, its case: the halted callback threw and the error callback was
\* called with the CALLBACK error, its result still pending
C9_Witness ==
    /\ halted
    /\ \E i, j \in 1..Len(fired) :
          /\ i < j
          /\ fired[i].h = "halted" /\ fired[i].threw
          /\ ErrorFromHalted(fired[j]) /\ ~fired[j].threw
    /\ Awaiting("err") # {}

\* C10: in a step that calls the noWork callback nothing is in progress
\* and the queue is empty: every item chain left has released its slot.
C10_NoWorkWhenIdle ==
    [][Invoked(fired', "noWork") =>
         /\ inProgressCount' = 0
         /\ queue' = <<>>
         /\ \A t \in ItemThreads(threads') : t.pc = "completing"]_vars

\* C10, its case: the noWork callback is called when the second item
\* completes on a halted queue
C10_Witness ==
    /\ Invoked(fired, "noWork")
    /\ Len(completed) >= 2
    /\ halted

\* nothing is in progress and the queue is empty
Idle == inProgressCount = 0 /\ queue = <<>>

\* the step releases the slot of an item
Completes == Len(completed') > Len(completed)

\* C11 as stated: every step that makes the queue idle (nothing in progress
\* and the queue empty, after there was work) calls the noWork callback.
C11_AsStated ==
    [][("noWork" \in callbacks /\ ~Idle /\ Idle') => Invoked(fired', "noWork")]_vars

\* C11, amended: the noWork callback is called exactly in the steps in which
\* the completion of an item leaves the queue idle, each time anew; a step
\* in which clear() empties the queue while nothing is in progress does not
\* call it.
C11_NoWorkOnDrain ==
    []["noWork" \in callbacks =>
         (Invoked(fired', "noWork") <=> Completes /\ Idle')]_vars

\* C11, its case: noWork is called for the second drain, for an item that
\* was enqueued while the result of the first noWork call was still pending
C11_Witness ==
    /\ Invoked(fired, "noWork")
    /\ Cardinality({t \in ItemThreads(threads) :
                       /\ t.pc = "completing"
                       /\ \E i \in 1..Len(t.frames) : t.frames[i].h = "noWork"}) = 2

\* the queue is halted and nothing is in progress
HaltDrained == halted /\ inProgressCount = 0

\* C12 as stated: for every halt the afterHaltCompleted callback is called,
\* once, in the step after which the queue is halted with nothing in
\* progress, also when nothing was in progress at the halt.
C12_AsStated ==
    [][/\ Calls(fired', "afterHaltCompleted") <= 1
       /\ ("afterHaltCompleted" \in callbacks /\ ~HaltDrained /\ HaltDrained')
            => Invoked(fired', "afterHaltCompleted")]_vars

\* the queue is paused and nothing is in progress
PauseDrained == paused /\ inProgressCount = 0

\* C13 as stated: in every pause episode the afterPauseCompleted callback is
\* called, once, in the step after which the queue is paused with nothing in
\* progress, also when nothing was in progress at the pause.
C13_AsStated ==
    [][/\ Calls(fired', "afterPauseCompleted") <= 1
       /\ ("afterPauseCompleted" \in callbacks /\ ~PauseDrained /\ PauseDrained')
            => Invoked(fired', "afterPauseCompleted")]_vars

\* C14: in a step that calls afterHaltCompleted or afterPauseCompleted
\* nothing is in progress: every dequeued item has released its slot, no
\* item chain waits for its task or for its itemProcessed callback, and the
\* step dequeues nothing.
C14_AfterWhenDrained ==
    [][(Invoked(fired', "afterHaltCompleted") \/ Invoked(fired', "afterPauseCompleted")) =>
         /\ inProgressCount' = 0
         /\ \A i \in 1..Len(admitted') :
               \E j \in 1..Len(completed') : completed'[j].id = admitted'[i]
         /\ \A t \in ItemThreads(threads') :
               /\ t.pc = "completing"
               /\ \A k \in 1..Len(t.frames) : t.frames[k].h # "itemProcessed"
         /\ admitted' = admitted]_vars

\* C14, its case: with two slots, both callbacks are called when the second
\* of two items completes on a queue that is halted and paused, both with
\* the itemProcessed callback registered
C14_Witness ==
    /\ Invoked(fired, "afterHaltCompleted")
    /\ Invoked(fired, "afterPauseCompleted")
    /\ "itemProcessed" \in callbacks
    /\ options.concurrencyLimit = 2
    /\ Len(completed) = 2

\* the chains that wait for the result of callback h
Pending(h) == {t \in threads : \E i \in 1..Len(t.frames) :
                                   t.frames[i].h = h /\ t.frames[i].st # "done"}

\* C15: while the queue is paused (from pause() until resume() is called)
\* no step dequeues an item, whether or not the result of the paused
\* callback has settled and whatever is added or completes; a step leaves
\* the running items running, apart from the one it settles; and every
\* running item can settle, to any result, and then releases its slot.
C15_NoDequeueWhilePaused ==
    [][paused =>
         /\ paused' => /\ admitted' = admitted
                       /\ inProgressCount' <= inProgressCount
                       /\ Cardinality({t \in ItemThreads(threads) :
                                          t.pc = "running" /\ t \notin threads'}) <= 1
         /\ \A t \in ItemThreads(threads) : t.pc = "running" =>
               \A o \in TaskResults : \A q \in Settled(t, o) : \A p \in RunItem(q) :
                  /\ p.s.inProgressCount = inProgressCount - 1
                  /\ Len(p.s.completed) = Len(completed) + 1
                  /\ p.s.admitted = admitted]_vars

\* C15, its case: on a paused queue, with the result of the paused callback
\* still pending, an item completed, no _evaluateQueue is pending and the
\* item added behind it is still in the queue
C15_Witness ==
    /\ paused /\ ~halted
    /\ Pending("paused") # {}
    /\ queue # <<>>
    /\ inProgressCount = 0 /\ Len(completed) = 1
    /\ immediates = 0

\* the step changes nothing of the queue and calls no callback
NoEffect ==
    /\ fired' = <<>>
    /\ UNCHANGED <<options, callbacks, queue, inProgressCount, halted, paused,
                   haltData, threads, immediates, admitted, started, completed>>

\* C16 as stated: resume() on a queue that is not in the PAUSED state (it is
\* running, or it is halted) changes nothing and calls no callback.
C16_AsStated == [][(Resume /\ ~(paused /\ ~halted)) => NoEffect]_vars

\* C16, amended: resume() on a queue whose _paused flag is not set changes
\* nothing and calls no callback, so that every later step is the one it
\* would have been; on a halted queue whose _paused flag is set, resume()
\* resets the flag and calls the resumed callback, and dequeues nothing.
C16_NoOpWhenNotPaused ==
    [][/\ (Resume /\ ~paused) => NoEffect
       /\ (Resume /\ paused /\ halted) =>
             /\ ~paused'
             /\ "resumed" \in callbacks => Invoked(fired', "resumed")
             /\ admitted' = admitted]_vars

\* C16, its case: with a processor (so that no add() is refused), two items
\* were added in two of the three calls made, the queue is not paused (so
\* no call was pause()), and both items were processed: the third call was
\* a resume() on a queue that was not paused
C16_Witness ==
    /\ options.processor /\ "resumed" \in callbacks
    /\ nCalls = 3 /\ nextId = 3
    /\ ~paused /\ ~halted
    /\ Len(completed) = 2

\* C17 as stated: no step that leaves the result of the resumed callback
\* pending dequeues an item: neither the resume() call itself nor any add,
\* addAll, setImmediate callback or completion before the result settles.
C17_AsStated == [][Pending("resumed")' # {} => admitted' = admitted]_vars

\* C18 as stated: when the result of the resumed callback settles to false
\* the queue is halted and dequeues nothing any more, and no step between
\* the resume() call and that settlement dequeues an item.
C18_AsStated ==
    [][/\ \A t \in Pending("resumed") : \A i \in 1..Len(t.frames) :
             t.frames[i].st = "cb" =>
               \A p \in Resumed(t, i, "false") :
                  p.s.halted /\ p.s.admitted = admitted /\ NothingAdmitted(p.s)
       /\ (Pending("resumed") # {} /\ Pending("resumed")' # {})
             => admitted' = admitted]_vars

\* C19: add(item) with a non-callable item and no processor throws a
\* BADREQUEST error to its caller and does nothing else: the queue, the
\* counter, the halted and paused flags, the pending chains and the item
\* ids are unchanged and no callback is called; no other step throws, and
\* add() of a function is accepted.
C19_AddRejected ==
    [][/\ (Add(FALSE) /\ ~options.processor) =>
             raised' = "BADREQUEST" /\ NoEffect /\ nextId' = nextId
       /\ raised' = "BADREQUEST" =>
             NoEffect /\ nextId' = nextId /\ ~options.processor
       /\ Add(TRUE) => raised' = "none" /\ nextId' = nextId + 1]_vars

\* C19, its case: add() has just thrown BADREQUEST on a queue with the error
\* callback registered and an item in progress, whose task is running
C19_Witness ==
    /\ raised = "BADREQUEST"
    /\ "error" \in callbacks
    /\ inProgressCount = 1
    /\ \E t \in ItemThreads(threads) : t.pc = "running"
    /\ fired = <<>>

\* the items, in the queue or in flight, that are not functions while there
\* is no processor
Invalid ==
    IF options.processor THEN {}
    ELSE {queue[i].id : i \in {j \in 1..Len(queue) : ~queue[j].fn}}
           \cup {t.n : t \in {u \in ItemThreads(threads) : ~u.fn}}

\* C20: addAll() does not throw and enqueues its items, callable or not.
\* The step that dequeues an item that is not a function, without a
\* processor, calls the error callback with source BADREQUEST and does not
\* run the item; no step runs such an item.  The item's slot is released in
\* that step or, when the result of the error callback (or of the halted
\* callback of a halt it caused) is awaited, when that settles: a chain
\* that still waits belongs to a halted queue.  When the result of the error
\* callback settles to a value that does not halt the queue, the slot is
\* released, _evaluateQueue() is scheduled and dequeues the item behind it.
C20_InvalidItemAtDequeue ==
    [][/\ \A fns \in Batches : AddAll(fns) =>
             /\ raised' = "none"
             /\ nextId' = nextId + Len(fns)
             /\ \A k \in 1..Len(fns) :
                   \/ \E i \in 1..Len(queue') : queue'[i] = [id |-> nextId + k - 1, fn |-> fns[k]]
                   \/ \E i \in 1..Len(admitted') : admitted'[i] = nextId + k - 1
       /\ (started' \ started) \cap Invalid = {}
       /\ \A n \in Invalid :
             (\E i \in 1..Len(admitted') : admitted'[i] = n /\ i > Len(admitted)) =>
                /\ "error" \in callbacks =>
                      \E i \in 1..Len(fired') :
                         /\ fired'[i].h = "error" /\ fired'[i].tag = "BADREQUEST"
                         /\ fired'[i].cb = "task"
                /\ \/ \E i \in 1..Len(completed') : completed'[i].id = n
                   \/ \E t \in ItemThreads(threads') :
                         t.n = n /\ t.pc = "err" /\ ~AllDone(t)
       /\ \A t \in ItemThreads(threads) : \A i \in 1..Len(t.frames) :
             (t.n \in Invalid /\ t.pc = "err" /\ t.frames[i].st # "done") =>
                \A o \in Outcomes \ {"SKIP"} : \A p \in Resumed(t, i, o) :
                   /\ t.n \notin p.s.started
                   /\ \/ /\ p.s.inProgressCount = inProgressCount - 1
                         /\ p.s.completed = Append(completed, [id |-> t.n, res |-> "none"])
                      \/ /\ p.s.halted /\ p.t.pc = "err" /\ ~AllDone(p.t)
                         /\ p.s.inProgressCount = inProgressCount
                   /\ (~halted /\ t.frames[i].st = "err" /\ o \notin {"false", "reject"}) =>
                         /\ p.s.inProgressCount = inProgressCount - 1
                         /\ ~p.s.halted /\ p.s.immediates > 0
                         /\ (p.s.queue # <<>> /\ ~paused) =>
                               \A q \in _evaluateQueue(p.s) :
                                  q.t.kind = "item" /\ q.t.n = Head(p.s.queue).id]_vars

\* C20, its case: without a processor and with the error callback
\* registered, the first item was never run and has released its slot, and
\* the item behind it was dequeued and run
C20_Witness ==
    /\ ~options.processor /\ "error" \in callbacks
    /\ ~halted
    /\ Len(completed) >= 1 /\ completed[1] = [id |-> 1, res |-> "none"]
    /\ 1 \notin started
    /\ admitted = <<1, 2>> /\ 2 \in started

\* the calls, in log, of the error callback for an error of a task
TaskErrors(log) == {i \in 1..Len(log) : log[i].h = "error" /\ log[i].cb = "task"}

\* state s, left by a task that failed in the current state: the error
\* callback, if there is one, was called once for the task, with an error
\* of source PROCESS, and the queue is halted only if it was before or that
\* call threw
ProcessErrorReported(s) ==
    /\ Cardinality(TaskErrors(s.fired)) = (IF "error" \in callbacks THEN 1 ELSE 0)
    /\ \A i \in TaskErrors(s.fired) :
          /\ s.fired[i].tag = "PROCESS"
          /\ \A k \in 1..(i - 1) : s.fired[k].h # "error"
    /\ s.halted => (halted \/ \E i \in TaskErrors(s.fired) : s.fired[i].threw)

\* the chains of the items that _evaluateQueue() would dequeue and call now
Launchable ==
    {q \in UNION {_onBeforeItemProcessed(e) : e \in _evaluateQueue(Cur)} :
        /\ q.t.pc = "before" /\ AllDone(q.t)
        /\ ~NotLaunched(q.t.frames[1].ret) /\ Runnable(q.t.fn)}

\* C21: when the promise of a running item rejects, and when the task or
\* processor of an item that is launched throws, the error callback is
\* called exactly once, with an error of source PROCESS, and the chain goes
\* on as after a rejection; the queue is not halted by this (only by the
\* error callback throwing), and the rest of the step halts nothing.  A step
\* that launches an item calls the error callback for a task at most once,
\* and exactly once when the launch failed and the callback is registered.
C21_ProcessError ==
    [][/\ \A t \in ItemThreads(threads) : t.pc = "running" =>
             \A q \in Settled(t, "reject") :
                /\ ProcessErrorReported(q.s)
                /\ q.t.pc = "err" /\ q.t.res = "reject"
                /\ \A p \in RunItem(q) : p.s.halted = q.s.halted
       /\ \A e \in Launchable : \A q \in Launched(e, "throw") :
             /\ ProcessErrorReported(q.s)
             /\ q.t.pc = "err"
             /\ \A p \in RunItem(q) : p.s.halted = q.s.halted
       /\ \A n \in started' \ started :
             /\ Cardinality(TaskErrors(fired')) <= 1
             /\ "error" \in callbacks =>
                  (TaskErrors(fired') # {}
                     <=> ~\E t \in ItemThreads(threads') : t.n = n /\ t.pc = "running")]_vars

\* C21, its case: the promise of an item has just rejected on a queue with
\* the error callback registered: the callback was called once, with source
\* PROCESS, its result is pending and the queue is not halted
C21_Witness ==
    /\ ~halted
    /\ Calls(fired, "error") = 1
    /\ \E i \in 1..Len(fired) :
          fired[i] = Ev("error", 0, "PROCESS", "task", FALSE)
    /\ \E t \in ItemThreads(threads) : t.pc = "err" /\ t.res = "reject" /\ ~AllDone(t)

\* in state s the next _evaluateQueue() is scheduled and, when the queue
\* holds items and is not stopped, dequeues its head
NextAdmitted(s) ==
    /\ s.immediates > 0
    /\ (s.queue # <<>> /\ ~Stopped(s)) =>
          \A q \in _evaluateQueue(s) : q.t.kind = "item" /\ q.t.n = Head(s.queue).id

\* p is left by a step in which item n, holding one of c slots, failed: the
\* queue is halted or not as before, no callback was told of an error or a
\* halt, the item's slot is released, its chain is finished and the next
\* item is admitted
Absorbed(p, n, c) ==
    /\ p.s.halted = halted /\ p.s.haltData = haltData
    /\ ~Invoked(p.s.fired, "error") /\ ~Invoked(p.s.fired, "halted")
    /\ p.s.inProgressCount = c - 1
    /\ \E i \in 1..Len(p.s.completed) : p.s.completed[i].id = n
    /\ p.t = Ended
    /\ NextAdmitted(p.s)

\* C22: without an error callback, a failure does not halt the queue (a
\* halted queue was halted by a return value), releases the slot of the
\* item and lets the next item be admitted: a rejected promise of a running
\* item (PROCESS), a task or processor that throws (PROCESS) or returns no
\* promise (BADREQUEST), an item that is not a function without a processor
\* (BADREQUEST), and a callback that throws or whose result rejects
\* (CALLBACK).
C22_AbsorbedWithoutErrorHook ==
    []["error" \notin callbacks =>
         /\ halted' => haltData'.reason \in {"CALLBACKRETVAL", "PROCESSRETVAL"}
         /\ \A t \in ItemThreads(threads) : t.pc = "running" =>
               \A q \in Settled(t, "reject") : \A p \in RunItem(q) :
                  Absorbed(p, t.n, inProgressCount)
         /\ \A e \in Launchable : \A l \in {"throw", "nonpromise"} :
               \A q \in Launched(e, l) : \A p \in RunItem(q) :
                  Absorbed(p, e.t.n, e.s.inProgressCount)
         /\ \A e \in _evaluateQueue(Cur) : (e.t.kind = "item" /\ ~Runnable(e.t.fn)) =>
               \A p \in RunItem(e) :
                  Absorbed(p, e.t.n, e.s.inProgressCount) /\ e.t.n \notin p.s.started
         /\ \A t \in ItemThreads(threads) : \A i \in 1..Len(t.frames) :
               (t.frames[i].st = "cb" /\ ~ResolvedFalse(t)) =>
                  \A p \in Resumed(t, i, "reject") : Absorbed(p, t.n, inProgressCount)
         /\ \A t \in threads : \A i \in 1..Len(t.frames) :
               t.frames[i].st # "done" =>
                  \A p \in Resumed(t, i, "reject") :
                     /\ ~Invoked(p.s.fired, "error")
                     /\ p.s.halted => (halted \/ ResolvedFalse(t))
         /\ \A i \in 1..Len(fired') :
               (fired'[i].threw /\ fired'[i].h # "halted") =>
                  (halted' => halted \/ haltData'.reason = "PROCESSRETVAL")]_vars

\* C22, its case: no error callback; with one slot, the promise of the
\* first item rejected, its slot was released and the second item was
\* dequeued and run on a queue that is not halted
C22_Witness ==
    /\ "error" \notin callbacks /\ "itemProcessed" \in callbacks
    /\ options.concurrencyLimit = 1
    /\ ~halted
    /\ Len(completed) >= 1 /\ completed[1] = [id |-> 1, res |-> "reject"]
    /\ admitted = <<1, 2>> /\ 2 \in started

\* C23: on a queue that is not halted, when the result of the callback of
\* any of the nine events called through _callHandler settles to false, the
\* queue is halted with reason CALLBACKRETVAL and the name of the event, and
\* the halted callback, if registered, is called with them.
C23_FalseHalts ==
    ~halted =>
      \A x \in Awaiting("cb") :
        /\ x.t.frames[x.i].h \in LifecycleHooks
        /\ \A p \in Resumed(x.t, x.i, "false") :
              HaltedBy(p.s, WorkQueueHaltData("CALLBACKRETVAL", "none", x.t.frames[x.i].h))

\* C23, its case: the halted callback was just called with CALLBACKRETVAL
\* and 'queueEmpty' after the queueEmpty callback, called for the dequeue
\* of the last item, returned false
C23_Witness ==
    /\ halted
    /\ haltData = WorkQueueHaltData("CALLBACKRETVAL", "none", "queueEmpty")
    /\ HaltedWith(fired, "CALLBACKRETVAL", "queueEmpty")
    /\ Len(admitted) >= 1

\* the pending results of the beforeItemProcessed callback
AwaitingBefore ==
    {x \in Awaiting("cb") : x.t.kind = "item" /\ x.t.frames[x.i].h = "beforeItemProcessed"}

\* C24: when the result of beforeItemProcessed settles to SKIP, the item's
\* task or processor is not called, its slot is released and it is logged as
\* completed, the queue is halted or not as before, neither the error nor
\* the halted callback is called, the chain is finished, and the next
\* _evaluateQueue() is scheduled and dequeues the head of the queue.
C24_Skip ==
    \A x \in AwaitingBefore : \A p \in Resumed(x.t, x.i, "SKIP") :
       /\ x.t.n \notin p.s.started
       /\ p.s.completed = Append(completed, [id |-> x.t.n, res |-> "none"])
       /\ Absorbed(p, x.t.n, inProgressCount)

\* C24, its case: with a processor and one slot, the first item was skipped
\* (completed without being run, the queue not halted) and the second was
\* dequeued after it and run
C24_Witness ==
    /\ "beforeItemProcessed" \in callbacks
    /\ options.processor /\ options.concurrencyLimit = 1
    /\ ~halted
    /\ Len(completed) >= 1 /\ completed[1] = [id |-> 1, res |-> "none"]
    /\ 1 \notin started
    /\ admitted = <<1, 2>> /\ 2 \in started

\* C25: when the result of beforeItemProcessed settles to HALT or to false,
\* the queue is halted (with reason CALLBACKRETVAL and callback
\* 'beforeItemProcessed' when it was not halted before), the item's task or
\* processor is not called, the step dequeues nothing and _evaluateQueue()
\* dequeues nothing afterwards.
C25_HaltBeforeItem ==
    \A x \in AwaitingBefore : \A o \in {"HALT", "false"} :
       \A p \in Resumed(x.t, x.i, o) :
          /\ p.s.halted
          /\ ~halted => HaltedBy(p.s, WorkQueueHaltData("CALLBACKRETVAL", "none",
                                                        "beforeItemProcessed"))
          /\ x.t.n \notin p.s.started /\ p.s.started = started
          /\ p.s.admitted = admitted
          /\ NothingAdmitted(p.s)

\* C25, its case: the queue was halted by beforeItemProcessed for the first
\* item, which was never run; nothing is pending any more and the second
\* item is still in the queue
C25_Witness ==
    /\ halted
    /\ haltData = WorkQueueHaltData("CALLBACKRETVAL", "none", "beforeItemProcessed")
    /\ admitted = <<1>> /\ started = {}
    /\ Len(completed) = 1
    /\ queue # <<>>
    /\ threads = {} /\ immediates = 0

----------------------------------------------------------------------------
\* the items handed to add / addAll so far
Enqueued == 1..(nextId - 1)

\* the items waiting in the queue
QueuedIds(q) == {q[i].id : i \in 1..Len(q)}

\* the items that left the queue without being dequeued: only clear()
\* removes an item in that way
Cleared == {n \in Enqueued : n \notin QueuedIds(queue) /\
                               \A i \in 1..Len(admitted) : admitted[i] # n}

\* the callbacks a call of _onQueueSizeChange() with the given size calls,
\* in their order (each may return or throw)
SizeEvents(size) ==
    LET evs(h, n) == IF h \in callbacks
                     THEN {<<Ev(h, n, "none", "none", b)>> : b \in BOOLEAN}
                     ELSE {<<>>}
    IN  {a \o b : a \in evs("queueSizeChange", size),
                  b \in IF size = 0 THEN evs("queueEmpty", 0) ELSE {<<>>}}

\* C26: clear() empties the queue, and an item it removed is never started
\* (nor dequeued: it stays removed); the call leaves the number of items
\* in progress, the halted and paused state, the chains in flight and the
\* items admitted, started and completed as they were, and calls
\* queueSizeChange with size 0 and then queueEmpty, and nothing else.
C26_Clear ==
    /\ [](Cleared \cap started = {})
    /\ [][/\ Cleared \subseteq Cleared'
          /\ Clear =>
                /\ queue' = <<>>
                /\ QueuedIds(queue) \subseteq Cleared'
                /\ inProgressCount' = inProgressCount
                /\ halted' = halted /\ haltData' = haltData
                /\ paused' = paused
                /\ admitted' = admitted /\ started' = started
                /\ completed' = completed /\ immediates' = immediates
                /\ threads \subseteq threads'
                /\ fired' \in SizeEvents(0)]_vars

\* an item is running, another one was removed by clear(), and the call
\* has just called queueSizeChange with 0 and queueEmpty
C26_Witness ==
    /\ callbacks = {"queueSizeChange", "queueEmpty"}
    /\ Cleared # {}
    /\ inProgressCount = 1
    /\ \E t \in ItemThreads(threads) : t.pc = "running"
    /\ queue = <<>>
    /\ fired = <<Ev("queueSizeChange", 0, "none", "none", FALSE),
                 Ev("queueEmpty", 0, "none", "none", FALSE)>>

----------------------------------------------------------------------------
\* the callbacks called for a sequence of (at most two) changes of the
\* queue with the given sizes
SizeLogs(sizes) ==
    CASE Len(sizes) = 0 -> {<<>>}
      [] Len(sizes) = 1 -> SizeEvents(sizes[1])
      [] OTHER -> {a \o b : a \in SizeEvents(sizes[1]), b \in SizeEvents(sizes[2])}

\* the size the queue has right after the call made by the step, if the
\* step is a call that changes the queue
SizeAfterCall ==
    IF nextId' # nextId \/ (\E fns \in Batches : AddAll(fns))
    THEN <<Len(queue) + (nextId' - nextId)>>
    ELSE IF Clear THEN <<0>> ELSE <<>>

\* the size the queue has right after the dequeue made by the step, if it
\* makes one (a step makes at most one)
SizeAfterDequeue ==
    IF admitted' # admitted THEN <<Len(queue')>> ELSE <<>>

\* C27: every accepted add, every addAll, every clear and every dequeue
\* calls queueSizeChange once, with the size the queue has right after
\* that change, and calls queueEmpty as well exactly when that size is 0;
\* no other step calls either.  (A step may hold a call and the dequeue
\* that follows it.)
C27_SizeCallbacks ==
    [][/\ Len(admitted') <= Len(admitted) + 1
       /\ fired' \in SizeLogs(SizeAfterCall \o SizeAfterDequeue)]_vars

\* the last pending item has just been pulled off the queue, while the
\* first one is still in progress, and queueEmpty was called
C27_Witness ==
    /\ callbacks = {"queueEmpty"}
    /\ admitted = <<1, 2>>
    /\ inProgressCount = 2
    /\ queue = <<>>
    /\ nCalls = 2
    /\ fired = <<Ev("queueEmpty", 0, "none", "none", FALSE)>>

----------------------------------------------------------------------------
\* item n was dequeued and its slot has been released
Done(n) ==
    /\ \E i \in 1..Len(admitted) : admitted[i] = n
    /\ \E i \in 1..Len(completed) : completed[i].id = n

\* C28: when the queue is never paused, halted or cleared (and every task
\* and callback result settles: the fairness of SpecLive), every item
\* handed to add / addAll is eventually dequeued and completed, and the
\* queue ends with nothing in progress and nothing waiting.
C28_Liveness ==
    [](~halted /\ ~paused /\ Cleared = {}) =>
        /\ \A n \in 1..MaxItems : (n \in Enqueued) ~> Done(n)
        /\ <>[](inProgressCount = 0 /\ queue = <<>> /\ \A n \in Enqueued : Done(n))

\* two items were enqueued and both are done, the queue is idle, and it
\* was not halted, paused or cleared
C28_Witness ==
    /\ Enqueued = 1..MaxItems
    /\ \A n \in Enqueued : Done(n)
    /\ inProgressCount = 0 /\ queue = <<>>
    /\ threads = {} /\ immediates = 0
    /\ ~halted /\ ~paused /\ Cleared = {}

----------------------------------------------------------------------------
\* the chains whose task or processor promise settles in this step
SettledNow == {t \in ItemThreads(threads) : t.pc = "running" /\ t \notin threads'}

\* what the promise of item n settled to, after the step
ResultOf(n) ==
    IF \E u \in ItemThreads(threads') : u.n = n
    THEN (CHOOSE u \in ItemThreads(threads') : u.n = n).res
    ELSE completed'[CHOOSE i \in 1..Len(completed') : completed'[i].id = n].res

\* the calls of itemProcessed in a log
ItemProcessedCalls(log) == SelectSeq(log, LAMBDA e : e.h = "itemProcessed")

\* C29: the step in which the promise of a launched item resolves calls
\* itemProcessed once, with the value it resolved to (false too); a step in
\* which the promise of an item is rejected, and every other step, does not
\* call it, so that it is never called for a rejected, skipped or
\* otherwise not launched item.  A halt with reason PROCESSRETVAL comes
\* after that call: the halted callback is called after itemProcessed, and
\* the queue enters the halt only when the item gets past its
\* itemProcessed callback.
C29_ItemProcessed ==
    [][/\ Cardinality(SettledNow) <= 1
       /\ \A t \in SettledNow :
             /\ t.n \in started
             /\ ResultOf(t.n) \in TaskResults
             /\ ItemProcessedCalls(fired') \in
                   IF ResultOf(t.n) # "reject" /\ "itemProcessed" \in callbacks
                   THEN {<<Ev("itemProcessed", 0, ResultOf(t.n), "none", b)>> : b \in BOOLEAN}
                   ELSE {<<>>}
       /\ SettledNow = {} => ItemProcessedCalls(fired') = <<>>
       /\ \A i, j \in 1..Len(fired') :
             fired'[i].h = "itemProcessed" /\ fired'[j].h = "halted"
                /\ fired'[j].tag = "PROCESSRETVAL" => i < j
       /\ ~halted /\ halted' /\ haltData'.reason = "PROCESSRETVAL" =>
             \E n \in 1..MaxItems : FalseResultHandled(n)]_vars

\* item 1 was skipped, the promise of item 2 has just resolved to false and
\* itemProcessed was called with false; the queue is not halted yet
C29_Witness ==
    /\ callbacks = {"halted", "beforeItemProcessed", "itemProcessed"}
    /\ 1 \notin started
    /\ \E i \in 1..Len(completed) : completed[i].id = 1
    /\ \E t \in ItemThreads(threads) : t.n = 2 /\ t.pc = "ip" /\ t.res = "false"
    /\ fired = <<Ev("itemProcessed", 0, "false", "none", FALSE)>>
    /\ ~halted

----------------------------------------------------------------------------
\* the halt records a halt may be requested with
HaltRecords ==
    {WorkQueueHaltData(r, e, c) :
        r \in HALT_REASONS, e \in {"none", "ex"}, c \in Hooks \cup {"none"}}

\* p is left by a step that changed nothing of the halt and called no
\* callback
HaltIgnored(p) ==
    p.s.halted /\ p.s.haltData = haltData /\ p.s.fired = <<>>

\* C30: the queue enters the halt at most once: a halted queue stays halted
\* with the record of the first cause, and the halted callback is called
\* only in the step that enters the halt, once, with that record.  On a
\* halted queue every halt request is ignored: _halt changes nothing and
\* calls nothing, whatever the record; so a task that resolves to false,
\* an error callback that resolves to false and an error callback whose
\* result rejects change nothing and call no callback.
C30_HaltOnce ==
    [][/\ halted => /\ halted' /\ haltData' = haltData
                    /\ ~Invoked(fired', "halted")
                    /\ \A data \in HaltRecords :
                          _halt(Cur, data) = {[w |-> Cur, st |-> "done"]}
                    /\ \A t \in ItemThreads(threads) : t.pc = "running" =>
                          \A q \in Settled(t, "false") : \A p \in RunItem(q) :
                             HaltIgnored(p)
                    /\ \A x \in Awaiting("err") : \A o \in {"false", "reject"} :
                          \A p \in Resumed(x.t, x.i, o) : HaltIgnored(p)
       /\ Calls(fired', "halted") <= 1
       /\ Invoked(fired', "halted") =>
             /\ ~halted /\ halted'
             /\ HaltedWith(fired', haltData'.reason, haltData'.callback)
       /\ ~halted => haltData = NoHaltData]_vars

\* the queue was halted by the error callback (which resolved to false for
\* the error of one item); the task of another item has resolved to false
\* since, and its halt request was ignored
C30_Witness ==
    /\ callbacks = {"error", "halted"}
    /\ halted
    /\ haltData = WorkQueueHaltData("CALLBACKRETVAL", "none", "error")
    /\ \E i \in 1..Len(completed) : completed[i].res = "false"
    /\ fired = <<>>

----------------------------------------------------------------------------
\* C31 as stated: pause() on a halted queue changes nothing and calls no
\* callback.
C31_AsStated == [][(Pause /\ halted) => NoEffect]_vars

\* C31, amended: pause() on a halted queue sets the paused flag and calls
\* the paused callback, and changes nothing else of the queue (it stays
\* halted with the same record, and nothing is dequeued); when the last
\* item in flight completes on the halted, paused queue, afterPauseCompleted
\* is called; a following resume() resets the flag and calls the resumed
\* callback, and dequeues nothing.
C31_PauseWhenHalted ==
    [][/\ (Pause /\ halted) =>
             /\ paused'
             /\ "paused" \in callbacks =>
                   \E b \in BOOLEAN : fired' = <<Ev("paused", 0, "none", "none", b)>>
             /\ halted' /\ haltData' = haltData
             /\ UNCHANGED <<queue, inProgressCount, immediates, admitted, started,
                            completed>>
             /\ threads \subseteq threads'
       /\ (halted /\ paused /\ Completes /\ inProgressCount' = 0
              /\ "afterPauseCompleted" \in callbacks) =>
             Calls(fired', "afterPauseCompleted") = 1
       /\ (Resume /\ halted /\ paused) =>
             /\ ~paused'
             /\ "resumed" \in callbacks =>
                   \E b \in BOOLEAN : fired' = <<Ev("resumed", 0, "none", "none", b)>>
             /\ halted' /\ haltData' = haltData
             /\ UNCHANGED <<queue, inProgressCount, admitted, started, completed>>]_vars

\* the queue halted (an item resolved to false) with another item in
\* flight, and pause() has just been called: the paused flag is set and
\* the paused callback was called
C31_Witness ==
    /\ callbacks = {"paused", "resumed", "afterPauseCompleted"}
    /\ halted /\ haltData.reason = "PROCESSRETVAL"
    /\ paused
    /\ \E t \in ItemThreads(threads) : t.pc = "running"
    /\ fired = <<Ev("paused", 0, "none", "none", FALSE)>>

----------------------------------------------------------------------------
\* C32 as stated: when the result of a callback other than
\* beforeItemProcessed settles to HALT, the queue is not halted.
C32_AsStated ==
    ~halted =>
      \A x \in Awaiting("cb") :
        x.t.frames[x.i].h # "beforeItemProcessed" =>
           \A p \in Resumed(x.t, x.i, "HALT") : ~p.s.halted

\* C32, amended: when the result of any callback called through
\* _callHandler (every callback but error and halted) settles to HALT on a
\* queue that is not halted, the queue halts with reason CALLBACKRETVAL and
\* the name of that callback, and the halted callback is called with that
\* record.
C32_HaltFromAnyCallback ==
    ~halted =>
      \A x \in Awaiting("cb") :
        \A p \in Resumed(x.t, x.i, "HALT") :
           HaltedBy(p.s, WorkQueueHaltData("CALLBACKRETVAL", "none", x.t.frames[x.i].h))

\* the itemProcessed callback resolved to HALT and the queue has just
\* halted with CALLBACKRETVAL and 'itemProcessed'
C32_Witness ==
    /\ halted
    /\ haltData = WorkQueueHaltData("CALLBACKRETVAL", "none", "itemProcessed")
    /\ HaltedWith(fired, "CALLBACKRETVAL", "itemProcessed")
    /\ \E t \in ItemThreads(threads) : \E k \in 1..Len(t.frames) :
          t.frames[k].h = "itemProcessed" /\ t.frames[k].ret = "HALT"

----------------------------------------------------------------------------
\* C33 as stated: when the pending result of a callback rejects with an
\* error that already carries a source, the error callback is called with
\* that source.
C33_AsStated ==
    "error" \in callbacks =>
      \A x \in Awaiting("cb") : \A err \in ERROR_SOURCES :
        \A r \in FailedWith(Cur, x.t.frames[x.i].h, err) :
           r.w.fired[1].h = "error" /\ r.w.fired[1].tag = err

\* C33, amended: a failure of a callback is passed to the error callback
\* with source CALLBACK and the name of the callback, whether or not the
\* error carried a source already: so for every pending callback result
\* that rejects, with any error, and so in every step in which a callback
\* throws; every error the error callback is called with, a failing task
\* apart, has source CALLBACK.
C33_SourceCallback ==
    /\ []("error" \in callbacks =>
            \A x \in Awaiting("cb") : \A err \in ThrownErrors :
              \A r \in FailedWith(Cur, x.t.frames[x.i].h, err) :
                 /\ r.w.fired # <<>>
                 /\ r.w.fired[1].h = "error"
                 /\ r.w.fired[1].tag = "CALLBACK"
                 /\ r.w.fired[1].cb = x.t.frames[x.i].h)
    /\ [][\A i \in 1..Len(fired') :
             /\ (fired'[i].h = "error" /\ fired'[i].cb # "task") =>
                   fired'[i].tag = "CALLBACK"
             /\ (fired'[i].h # "error" /\ fired'[i].threw /\ "error" \in callbacks) =>
                   /\ i < Len(fired')
                   /\ fired'[i + 1].h = "error"
                   /\ fired'[i + 1].tag = "CALLBACK"
                   /\ fired'[i + 1].cb = fired'[i].h]_vars

\* the itemProcessed callback has just thrown, and the error callback was
\* called with source CALLBACK and 'itemProcessed'
C33_Witness ==
    /\ callbacks = {"error", "itemProcessed"}
    /\ Len(fired) = 2
    /\ fired[1].h = "itemProcessed" /\ fired[1].threw
    /\ fired[2] = Ev("error", 0, "CALLBACK", "itemProcessed", FALSE)

----------------------------------------------------------------------------
\* state s, left by a launch that returned no promise: the error callback,
\* if there is one, was called once for the task, with an error of source
\* BADREQUEST, and the queue is halted only if it was before or that call
\* threw
BadRequestReported(s) ==
    /\ Cardinality(TaskErrors(s.fired)) = (IF "error" \in callbacks THEN 1 ELSE 0)
    /\ \A i \in TaskErrors(s.fired) :
          /\ s.fired[i].tag = "BADREQUEST"
          /\ \A k \in 1..(i - 1) : s.fired[k].h # "error"
    /\ s.halted => (halted \/ \E i \in TaskErrors(s.fired) : s.fired[i].threw)

\* item n is completed in state s
CompletedIn(s, n) == \E i \in 1..Len(s.completed) : s.completed[i].id = n

\* C34: when the task or processor called for an item returns something
\* that is no promise, the error callback is called once with an error of
\* source BADREQUEST; when nothing is pending for the item (no error
\* callback, or it threw) the slot is released in the same step.  When the
\* pending result of the error callback of an item whose launch failed
\* settles, the slot is released and the item completed, unless the queue
\* halts and the halted callback is pending; and if the result asks for no
\* halt the queue is halted only if it was before, and the next item is
\* admitted when the queue is neither halted nor paused.
C34_NoPromise ==
    [][/\ \A e \in Launchable : \A q \in Launched(e, "nonpromise") :
             /\ BadRequestReported(q.s)
             /\ e.t.n \in q.s.started
             /\ q.t.pc = "err" /\ q.t.res = "none"
             /\ q.s.inProgressCount = e.s.inProgressCount
             /\ \A p \in RunItem(q) :
                   IF AllDone(q.t)
                   THEN /\ p.s.inProgressCount = e.s.inProgressCount - 1
                        /\ CompletedIn(p.s, e.t.n)
                   ELSE p = q
       /\ \A t \in ItemThreads(threads) : \A i \in 1..Len(t.frames) :
             (t.pc = "err" /\ t.res = "none" /\ t.n \in started
                /\ t.frames[i].st = "err") =>
                \A o \in Outcomes \ {"SKIP"} : \A p \in Resumed(t, i, o) :
                   /\ \/ /\ p.s.inProgressCount = inProgressCount - 1
                         /\ CompletedIn(p.s, t.n)
                      \/ /\ p.s.halted /\ p.t.pc = "err" /\ ~AllDone(p.t)
                         /\ p.s.inProgressCount = inProgressCount
                   /\ o \in {"false", "reject"} => p.s.halted
                   /\ o \notin {"false", "reject"} =>
                         /\ p.s.halted = halted
                         /\ p.s.inProgressCount = inProgressCount - 1
                         /\ ~halted => NextAdmitted(p.s)]_vars

\* the task of an item was called and returned no promise: the error
\* callback has just been called with source BADREQUEST, its result is
\* pending, the item holds its slot and the queue is not halted
C34_Witness ==
    /\ ~halted
    /\ \E i \in 1..Len(fired) : fired[i] = Ev("error", 0, "BADREQUEST", "task", FALSE)
    /\ \E t \in ItemThreads(threads) :
          t.pc = "err" /\ t.n \in started /\ ~AllDone(t)
    /\ inProgressCount >= 1

----------------------------------------------------------------------------
\* the pending results of the queueSizeChange and queueEmpty callbacks
\* called for a dequeue
AwaitingDequeue ==
    {x \in Awaiting("cb") : x.t.kind = "item" /\ x.t.pc = "qsc"}

----------------------------------------------------------------------------
\* the chains of the items that were dequeued and whose processing has not
\* settled: their queue-size, beforeItemProcessed, itemProcessed, error or
\* halted callbacks or their task are still to come or pending
InProcess(T) ==
    {t \in ItemThreads(T) : t.pc \in {"qsc", "before", "running", "ip", "err", "halting"}}

\* the chains of the items that wait for the result of their
\* itemProcessed, error or halted callback
HookPending(T) ==
    {t \in ItemThreads(T) : t.pc \in {"ip", "err", "halting"} /\ ~AllDone(t)}

\* C36: an item whose processing has not settled (its task, or its
\* itemProcessed, error or halted callback, is pending) holds its slot
\* and is not completed; the step that releases the slot of an item leaves
\* nothing of its processing pending, and a step in which the
\* itemProcessed, error or halted callback is called and returns (its
\* result is awaited) releases no slot; and with a limit of 1, while the
\* itemProcessed, error or halted callback of an item is pending no step
\* dequeues an item and _evaluateQueue() would dequeue none.
C36_SlotHeldUntilSettled ==
    /\ [](/\ \A t \in InProcess(threads) : ~CompletedIn(Cur, t.n)
          /\ inProgressCount >= Cardinality(InProcess(threads))
          /\ (options.concurrencyLimit = 1 /\ HookPending(threads) # {}) =>
                NothingAdmitted(Cur))
    /\ [][/\ \A i \in 1..Len(completed') :
                i > Len(completed) =>
                   \A u \in ItemThreads(threads') :
                      u.n = completed'[i].id => u.pc = "completing"
          /\ (\E i \in 1..Len(fired') : ~fired'[i].threw) => completed' = completed
          /\ (options.concurrencyLimit = 1 /\ HookPending(threads) # {}) =>
                admitted' = admitted]_vars

\* with a limit of 1, the task of the first item has resolved and the
\* result of its itemProcessed callback is pending: the item holds the
\* slot, no _evaluateQueue() is scheduled, and the second item waits in
\* the queue
C36_Witness ==
    /\ options.concurrencyLimit = 1
    /\ "itemProcessed" \in callbacks
    /\ \E t \in HookPending(threads) : t.n = 1 /\ t.pc = "ip" /\ t.res = "true"
    /\ inProgressCount = 1
    /\ Len(queue) = 1 /\ queue[1].id = 2
    /\ ~halted /\ ~paused /\ immediates = 0

----------------------------------------------------------------------------
\* the queue is running and holds, waiting or in progress, at least as
\* many items as the limit allows
Enough ==
    /\ ~halted /\ ~paused
    /\ Len(queue) + inProgressCount >= options.concurrencyLimit

\* C37: while the queue is running and holds at least concurrencyLimit
\* items, waiting or in progress, the number of items in progress reaches
\* the limit without any further item completing (unless one completes, or
\* the queue is halted, paused or cleared, first): admission waits for the
\* event loop only, not for a task to settle.
C37_AdmittedBackToBack ==
    \A c \in 0..MaxItems :
        (Enough /\ Len(completed) = c) ~>
            \/ inProgressCount = options.concurrencyLimit /\ Len(completed) = c
            \/ ~Enough
            \/ Len(completed) > c

\* with a limit of 2, two items are in progress, both tasks running, and
\* no item has completed
C37_Witness ==
    /\ options.concurrencyLimit = 2
    /\ inProgressCount = 2
    /\ admitted = <<1, 2>>
    /\ \A n \in {1, 2} : \E t \in ItemThreads(threads) : t.n = n /\ t.pc = "running"
    /\ completed = <<>>
    /\ ~halted /\ ~paused

----------------------------------------------------------------------------
\* the ids of the items dequeued so far
AdmittedIds == {admitted[i] : i \in 1..Len(admitted)}

\* the chains of item n
ChainsOf(T, n) == {t \in ItemThreads(T) : t.n = n}

\* C38: an item that is in the queue has not been dequeued and has not
\* been started; an item is dequeued at most once, has at most one
\* processing chain, and is started only after its dequeue, by that chain,
\* which is then past its launch; an item removed by clear() has not been
\* started.  An item leaves the queue only as the head that the step
\* dequeues or in a clear() that dequeues nothing, only items added by the
\* step enter the queue, and a step starts only items that were not
\* started, at most one.
C38_StartedAtMostOnce ==
    /\ [](/\ QueuedIds(queue) \cap AdmittedIds = {}
          /\ QueuedIds(queue) \cap started = {}
          /\ Cleared \cap started = {}
          /\ started \subseteq AdmittedIds
          /\ \A i, j \in 1..Len(admitted) : admitted[i] = admitted[j] => i = j
          /\ \A i, j \in 1..Len(queue) : queue[i].id = queue[j].id => i = j
          /\ \A n \in Enqueued : Cardinality(ChainsOf(threads, n)) <= 1
          /\ \A t \in ItemThreads(threads) :
                /\ t.n \in AdmittedIds
                /\ t.pc \in {"qsc", "before"} => t.n \notin started
                /\ t.n \in started => t.pc \notin {"qsc", "before"})
    /\ [][/\ started \subseteq started'
          /\ Cardinality(started' \ started) <= 1
          /\ QueuedIds(queue') \ QueuedIds(queue) \subseteq nextId..(nextId' - 1)
          /\ \A n \in QueuedIds(queue) \ QueuedIds(queue') :
                \/ /\ Clear
                   /\ admitted' = admitted /\ started' = started
                   /\ n \in Cleared'
                \/ /\ ~Clear
                   /\ n = Head(queue).id
                   /\ admitted' = Append(admitted, n)]_vars

\* C38, its case: item 1 was dequeued, started and completed, and item 2,
\* never started, is still in the queue
C38_Witness ==
    /\ admitted = <<1>> /\ started = {1}
    /\ Len(completed) = 1 /\ completed[1].id = 1
    /\ QueuedIds(queue) = {2}

----------------------------------------------------------------------------
\* the ids of the items whose slot was released
CompletedIds == {completed[i].id : i \in 1..Len(completed)}

\* C39: InProgressCount is the number of the items dequeued and not yet
\* completed, never negative; the slot of an item is released once, after
\* its dequeue; a dequeued item that is not completed has a chain that
\* waits for its task or for the result of a callback; every step changes
\* the counter by the dequeues minus the completions it makes; and when
\* every task and callback result settles, every dequeued item is
\* eventually completed, whichever way its processing goes.
C39_SlotAccounting ==
    /\ [](/\ inProgressCount = Cardinality(AdmittedIds \ CompletedIds)
          /\ inProgressCount = Len(admitted) - Len(completed)
          /\ inProgressCount >= 0
          /\ CompletedIds \subseteq AdmittedIds
          /\ \A i, j \in 1..Len(completed) :
                completed[i].id = completed[j].id => i = j
          /\ \A n \in AdmittedIds \ CompletedIds :
                \E t \in ChainsOf(threads, n) : t.pc = "running" \/ ~AllDone(t))
    /\ [][/\ Len(completed') >= Len(completed)
          /\ SubSeq(completed', 1, Len(completed)) = completed
          /\ inProgressCount' = inProgressCount
                                  + (Len(admitted') - Len(admitted))
                                  - (Len(completed') - Len(completed))]_vars
    /\ \A n \in 1..MaxItems : (n \in AdmittedIds) ~> (n \in CompletedIds)

\* C39, its case: with both callbacks registered two items were dequeued;
\* the first one, started, has released its slot and the second one still
\* holds its own
C39_Witness ==
    /\ callbacks = {"error", "beforeItemProcessed"}
    /\ admitted = <<1, 2>>
    /\ CompletedIds = {1} /\ 1 \in started
    /\ inProgressCount = 1

----------------------------------------------------------------------------
\* the positions of the calls of callback h in a log
CallsOf(log, h) == {i \in 1..Len(log) : log[i].h = h}

\* C40: on a queue with the halted callback registered, the step that
\* halts the queue calls the halted callback, once, and a halted queue has
\* seen at least one call; every call of afterHaltCompleted is made on a
\* halted queue and comes after the call of the halted callback: the
\* queue was halted (and the callback called) by an earlier step, or the
\* halted callback is called earlier in the same step; and
\* afterHaltCompleted is never called on a queue that is not halted.
C40_HaltedBeforeAfterHalt ==
    /\ [](halted => nCalls > 0)
    /\ [][/\ (nCalls > 0 \/ halted) => callbacks' = callbacks
          /\ (~halted /\ halted' /\ "halted" \in callbacks) =>
                Cardinality(CallsOf(fired', "halted")) = 1
          /\ \A i \in CallsOf(fired', "afterHaltCompleted") :
                /\ halted'
                /\ \/ halted
                   \/ /\ "halted" \in callbacks =>
                           \E j \in CallsOf(fired', "halted") : j < i
                      /\ haltData' # NoHaltData]_vars

\* C40, its case: with both callbacks registered, the queue was halted by
\* an earlier step and the last item in progress has just completed:
\* afterHaltCompleted is called
C40_Witness ==
    /\ {"halted", "afterHaltCompleted"} \subseteq callbacks
    /\ halted /\ inProgressCount = 0
    /\ CallsOf(fired, "afterHaltCompleted") # {}
    /\ CallsOf(fired, "halted") = {}

====
